---- MODULE Spec2Model ----
(***************************************************************************)
(* Model of src/main.py: the monitoring loop of main(), its five          *)
(* history-based detectors, its two stateless detectors and the weighted  *)
(* status ladder.                                                          *)
(*                                                                         *)
(* Numbers.  Python computes the averages, percentages and the weighted   *)
(* score in binary floating point.  The model computes them exactly with  *)
(* integers (cross-multiplied comparisons, scaled quotients).  Wherever    *)
(* the exact value sits on a decision boundary that floating-point error  *)
(* can move (a rounding tie, a weighted score that is exactly a ladder    *)
(* threshold while 0.1- or 0.2-weighted reasons contribute), the model    *)
(* takes every outcome as possible.                                       *)
(***************************************************************************)
EXTENDS Integers, Sequences, FiniteSets, TLC

VARIABLES
    pc,                        \* position of main() inside its while-loop
    cycle,                     \* number of the loop iteration (1 = first)
    results_bound,             \* whether main's local `results` is bound
    error,                     \* name of the uncaught exception, or "none"
    table,                     \* rows of the BGP table fetched this cycle
    num_origins_history,
    num_prefixes_history,
    num_dfz_routes_history,
    rpki_invalid_roa_history,
    rpki_total_roa_history,
    invalid_roa,               \* this cycle's RPKI input, in dict order
    total_roa,
    v6_roots_failed,
    v4_roots_failed,
    probe_status,
    fucked_reasons,
    v6_pc,                     \* check_dfz's v6_pc, in tenths of a percent
    v4_pc,
    weighted_reasons,
    unweighted_reasons,
    status,
    recorded,                  \* history variable: every value ever recorded
    degenerate,                \* history variable: some provider gave no data
    calls,                     \* number of direct detector calls (harnesses)
    duration,                  \* main's `duration`: seconds from `before` to `after`
    period                     \* history variable: seconds between the starts of
                               \* the previous cycle and of this one

vars == <<pc, cycle, results_bound, error, table, num_origins_history,
          num_prefixes_history, num_dfz_routes_history,
          rpki_invalid_roa_history, rpki_total_roa_history, invalid_roa,
          total_roa, v6_roots_failed, v4_roots_failed, probe_status,
          fucked_reasons, v6_pc, v4_pc, weighted_reasons,
          unweighted_reasons, status, recorded, degenerate, calls, duration,
          period>>

-----------------------------------------------------------------------------
(* Configuration, main.py lines 17-33.                                     *)

max_history == 24
update_frequency == 1800
dfz_threshold == 1
bgp_prefix_threshold == 85
dns_root_fail_threshold == 20
atlas_probe_threshold == 10
total_roa_threshold == 90

Categories ==
    {"origins", "prefixes", "dns_root", "atlas_connected", "invalid_roa",
     "total_roa", "dfz"}

\* A faulty variant of weighting: dns_root weighted 1 instead of 10.
weighting_dns_light ==
    [origins |-> 1, prefixes |-> 2, dns_root |-> 10, atlas_connected |-> 10,
     invalid_roa |-> 10, total_roa |-> 50, dfz |-> 10]

\* The weights in tenths: 0.1, 0.2, 10, 1, 1, 5, 1.
weighting ==
    [origins |-> 1, prefixes |-> 2, dns_root |-> 100, atlas_connected |-> 10,
     invalid_roa |-> 10, total_roa |-> 50, dfz |-> 10]

-----------------------------------------------------------------------------
(* Generic helpers.                                                        *)

Min(a, b) == IF a < b THEN a ELSE b

Max(a, b) == IF a > b THEN a ELSE b

RECURSIVE SumSeq(_)
SumSeq(s) == IF s = <<>> THEN 0 ELSE Head(s) + SumSeq(Tail(s))

Front(s) == SubSeq(s, 1, Len(s) - 1)

\* n copies of v
Repeat(v, n) == [i \in 1..n |-> v]

\* <<n, n-1, ..., 1>>: what recording 1, 2, ..., n in that order leaves
Ramp(n) == [i \in 1..n |-> n + 1 - i]

\* floor(scale * num / den) and the remainder, by long division in steps
\* that stay inside 32-bit integers (den * 10 must fit).
RECURSIVE ScaledDiv(_, _, _)
ScaledDiv(num, den, digits) ==
    IF digits = 0
    THEN [q |-> num \div den, r |-> num % den]
    ELSE LET d == ScaledDiv(num, den, digits - 1)
         IN  [q |-> d.q * 10 + (d.r * 10) \div den, r |-> (d.r * 10) % den]

\* The values round(num / den * 10^digits) can take: the nearest integer,
\* and both neighbours on an exact tie (Python rounds the float it holds,
\* which floating-point error puts on either side of the tie).
RoundChoices(num, den, digits) ==
    LET d == ScaledDiv(num, den, digits)
    IN  IF 2 * d.r < den THEN {d.q}
        ELSE IF 2 * d.r > den THEN {d.q + 1}
        ELSE {d.q, d.q + 1}

-----------------------------------------------------------------------------
(* Bounded history windows, newest first.                                  *)

\* list.insert(0, value)
insert_front(window, value) == <<value>> \o window

\* main.py 185-187, 224-226, 316-322: insert at the front, then pop the
\* last element when the window has become longer than max_history.
insert_and_trim(window, value) ==
    LET w == insert_front(window, value)
    IN  IF Len(w) > max_history THEN Front(w) ELSE w

\* A faulty variant of record_counts: a tracked key that is absent from the
\* input is recorded with the count 0.
record_counts_zero_fill(counts, history) ==
    [k \in DOMAIN history \cup DOMAIN counts |->
        IF k \in DOMAIN counts
        THEN IF k \in DOMAIN history
             THEN insert_and_trim(history[k], counts[k])
             ELSE <<counts[k]>>
        ELSE insert_and_trim(history[k], 0)]

\* main.py 182-189 and 221-228: every key of this cycle's input is recorded;
\* tracked keys that are absent from the input are left alone.
record_counts(counts, history) ==
    [k \in DOMAIN history \cup DOMAIN counts |->
        IF k \in DOMAIN counts
        THEN IF k \in DOMAIN history
             THEN insert_and_trim(history[k], counts[k])
             ELSE <<counts[k]>>
        ELSE history[k]]

\* main.py 251-256 and 280-285: one step of the RPKI loops.  The length
\* compared with max_history is that of the history dict (its number of
\* repositories), not that of the repository's window.
record_repo(history, repo, value) ==
    IF repo \in DOMAIN history
    THEN LET w == insert_front(history[repo], value)
         IN  [history EXCEPT
                ![repo] = IF Cardinality(DOMAIN history) > max_history
                          THEN Front(w) ELSE w]
    ELSE history @@ (repo :> <<value>>)

\* main.py 250-256 and 279-285: the loop over the input dict, in its order.
\* `roa` is the dict as a sequence of <<repo, value>> pairs.
RECURSIVE record_roa(_, _)
record_roa(roa, history) ==
    IF roa = <<>> THEN history
    ELSE record_roa(Tail(roa), record_repo(history, Head(roa)[1], Head(roa)[2]))

-----------------------------------------------------------------------------
(* fetch_bgp_table: the two dicts built from the table's rows.  A row is   *)
(* [ASN |-> a, CIDR |-> p]; a prefix is the tuple of its characters.       *)

\* A faulty variant of table_pfx_key: the first row of a prefix is not
\* counted, so a prefix with a single origin has the count 0.
table_pfx_key_less_one(rows) ==
    [p \in {x.CIDR : x \in rows} |-> Cardinality({x \in rows : x.CIDR = p}) - 1]

table_pfx_key(rows) ==
    [p \in {x.CIDR : x \in rows} |-> Cardinality({x \in rows : x.CIDR = p})]

table_asn_key(rows) ==
    [a \in {x.ASN : x \in rows} |-> Cardinality({x \in rows : x.ASN = a})]

-----------------------------------------------------------------------------
(* check_bgp_origins                                                       *)

\* A faulty variant of origins_above: the average taken over the earlier samples
\* only, without the one just recorded.
origins_above_earlier(origins) ==
    LET earlier == IF Len(origins) > 1 THEN Tail(origins) ELSE origins
    IN  /\ origins[1] * Len(earlier) > SumSeq(earlier)
        /\ SumSeq(earlier) < 2 * Len(earlier)

\* main.py 193-196: origins[0] > avg and avg < 2, with avg = sum / len
origins_above(origins) ==
    /\ origins[1] * Len(origins) > SumSeq(origins)
    /\ SumSeq(origins) < 2 * Len(origins)

\* A faulty variant of origins_below: both comparisons the other way round.
origins_below_flipped(origins) ==
    /\ origins[1] > 2
    /\ SumSeq(origins) < 5 * Len(origins)

\* main.py 204: origins[0] < 2 and avg > 5
origins_below(origins) ==
    /\ origins[1] < 2
    /\ SumSeq(origins) > 5 * Len(origins)

origins_reasons(history) ==
    {[key |-> p, kind |-> "above"] :
        p \in {q \in DOMAIN history : origins_above(history[q])}}
    \cup
    {[key |-> p, kind |-> "below"] :
        p \in {q \in DOMAIN history : origins_below(history[q])}}

\* A faulty variant of check_bgp_origins: only the prefixes of this call's
\* table are tested.
check_bgp_origins_input_only(pfx_counts, history) ==
    LET h == record_counts(pfx_counts, history)
    IN  [history |-> h,
         reasons |-> {r \in origins_reasons(h) : r.key \in DOMAIN pfx_counts}]

check_bgp_origins(pfx_counts, history) ==
    LET h == record_counts(pfx_counts, history)
    IN  [history |-> h, reasons |-> origins_reasons(h)]

-----------------------------------------------------------------------------
(* check_bgp_prefixes                                                      *)

\* A faulty variant of prefixes_percentage: the average is taken over the
\* earlier samples only, without the one just recorded.
prefixes_percentage_earlier(prefixes) ==
    LET earlier == IF Len(prefixes) > 1 THEN Tail(prefixes) ELSE prefixes
    IN  {100 - r :
            r \in RoundChoices(prefixes[1] * Len(earlier), SumSeq(earlier), 2)}

\* main.py 232-233: the values 100 - int(round(prefixes[0] / avg * 100, 0))
\* can take.
prefixes_percentage(prefixes) ==
    {100 - r :
        r \in RoundChoices(prefixes[1] * Len(prefixes), SumSeq(prefixes), 2)}

\* Keys whose reason is emitted whatever the rounding, and keys whose
\* reason can be emitted.
prefixes_must(history) ==
    {a \in DOMAIN history :
        \A pct \in prefixes_percentage(history[a]) : pct > bgp_prefix_threshold}

prefixes_may(history) ==
    {a \in DOMAIN history :
        \E pct \in prefixes_percentage(history[a]) : pct > bgp_prefix_threshold}

\* The reason lists check_bgp_prefixes can return for a recorded history.
prefixes_reasons(history) ==
    {{[key |-> a, kind |-> "drop"] : a \in S} :
        S \in {T \in SUBSET prefixes_may(history) : prefixes_must(history) \subseteq T}}

-----------------------------------------------------------------------------
(* check_rpki_invalids and check_rpki_totals                               *)

\* A faulty variant of invalids_above: >= in place of >.
invalids_above_inclusive(invalids) ==
    invalids[1] * Len(invalids) >= SumSeq(invalids)

\* main.py 288-289: invalids[0] > avg
invalids_above(invalids) == invalids[1] * Len(invalids) > SumSeq(invalids)

invalids_reasons(history) ==
    {[key |-> r, kind |-> "invalid"] :
        r \in {q \in DOMAIN history : invalids_above(history[q])}}

check_rpki_invalids(roa, history) ==
    LET h == record_roa(roa, history)
    IN  [history |-> h, reasons |-> invalids_reasons(h)]

\* A faulty variant of totals_dropped: the mean is not truncated to an integer.
totals_dropped_mean(totals) ==
    /\ SumSeq(totals) # 0
    /\ 100 * SumSeq(totals) - 100 * totals[1] * Len(totals)
          > total_roa_threshold * SumSeq(totals)

\* main.py 259-264: avg = int(sum / len); percentage = totals[0] / avg * 100,
\* or 100 on ZeroDivisionError; reason when 100 - percentage > 90.
totals_dropped(totals) ==
    LET avg == SumSeq(totals) \div Len(totals)
    IN  /\ avg # 0
        /\ 100 * avg - 100 * totals[1] > total_roa_threshold * avg

totals_reasons(history) ==
    {[key |-> r, kind |-> "total"] :
        r \in {q \in DOMAIN history : totals_dropped(history[q])}}

\* A faulty variant of check_rpki_totals: the totals are recorded on top of
\* the invalid-ROA windows.
check_rpki_totals_shared(roa, history) ==
    LET h == record_roa(roa, rpki_invalid_roa_history)
    IN  [history |-> h, reasons |-> totals_reasons(h)]

check_rpki_totals(roa, history) ==
    LET h == record_roa(roa, history)
    IN  [history |-> h, reasons |-> totals_reasons(h)]

-----------------------------------------------------------------------------
(* check_dfz                                                               *)

\* str.find: the 0-based index of the first occurrence of pat in s, or -1
find(s, pat) ==
    LET hits == {i \in 0..(Len(s) - Len(pat)) :
                    SubSeq(s, i + 1, i + Len(pat)) = pat}
    IN  IF hits = {} THEN -1
        ELSE CHOOSE i \in hits : \A j \in hits : i <= j

\* main.py 311: pfx.find('::/') > 0
is_v6(pfx) == find(pfx, <<":", ":", "/">>) > 0

\* main.py 307-314
dfz_counts(pfx_keys) ==
    [v6 |-> Cardinality({p \in pfx_keys : is_v6(p)}),
     v4 |-> Cardinality({p \in pfx_keys : ~is_v6(p)})]

\* main.py 316-322
dfz_record(history, v6_dfz_count, v4_dfz_count) ==
    [v6 |-> insert_and_trim(history.v6, v6_dfz_count),
     v4 |-> insert_and_trim(history.v4, v4_dfz_count)]

\* main.py 324-325 and 342-343: avg = sum / len raises nothing, but
\* window[0] / avg raises ZeroDivisionError when the average is 0.
dfz_divides(window) == SumSeq(window) # 0

\* round(window[0] / avg * 100, 1), in tenths of a percent
dfz_pc(window) == RoundChoices(window[1] * Len(window), SumSeq(window), 3)

\* A faulty variant of dfz_verdict: >= in place of >.
dfz_verdict_inclusive(pc_tenths) ==
    IF pc_tenths - 1000 >= 10 * dfz_threshold THEN "increase"
    ELSE IF 1000 - pc_tenths >= 10 * dfz_threshold THEN "decrease"
    ELSE "none"

\* main.py 327-334 and 345-352, pc in tenths
dfz_verdict(pc_tenths) ==
    IF pc_tenths - 1000 > 10 * dfz_threshold THEN "increase"
    ELSE IF 1000 - pc_tenths > 10 * dfz_threshold THEN "decrease"
    ELSE "none"

\* main.py 336-337 and 354-355
dfz_reasons(pc6, pc4) ==
    {[key |-> "v6", kind |-> dfz_verdict(pc6)] : x \in {y \in {1} : dfz_verdict(pc6) # "none"}}
    \cup
    {[key |-> "v4", kind |-> dfz_verdict(pc4)] : x \in {y \in {1} : dfz_verdict(pc4) # "none"}}

-----------------------------------------------------------------------------
(* check_dns_roots.  A measurement is [total |-> n, failed |-> set of      *)
(* probe ids]; each family's dict maps root server to measurement.         *)

\* main.py 368 and 378: failed / total raises ZeroDivisionError
dns_divides(roots_failed) == \A r \in DOMAIN roots_failed : roots_failed[r].total # 0

\* round(failed / total * 100, 1), in tenths of a percent
dns_percent_failed(m) == RoundChoices(Cardinality(m.failed), m.total, 3)

dns_must(roots_failed, family) ==
    {[key |-> r, kind |-> family] :
        r \in {q \in DOMAIN roots_failed :
                 \A pf \in dns_percent_failed(roots_failed[q]) :
                    pf > 10 * dns_root_fail_threshold}}

dns_may(roots_failed, family) ==
    {[key |-> r, kind |-> family] :
        r \in {q \in DOMAIN roots_failed :
                 \E pf \in dns_percent_failed(roots_failed[q]) :
                    pf > 10 * dns_root_fail_threshold}}

\* The reason lists check_dns_roots can return.
check_dns_roots(v6, v4) ==
    {R \in SUBSET (dns_may(v6, "IPv6") \cup dns_may(v4, "IPv4")) :
        dns_must(v6, "IPv6") \cup dns_must(v4, "IPv4") \subseteq R}

-----------------------------------------------------------------------------
(* check_ripe_atlas_status.  probe_status holds two lists of probe ids.    *)

\* A faulty variant of check_ripe_atlas_status: >= in place of >.
check_ripe_atlas_status_inclusive(ps) ==
    LET total == Len(ps.connected \o ps.disconnected)
        disconnected == Len(ps.disconnected)
    IN  IF total # 0 /\ 100 * disconnected >= atlas_probe_threshold * total
        THEN {[key |-> "probes", kind |-> "disconnected"]}
        ELSE {}

\* main.py 391-400: avg = (disconnected / total) * 100, or 0 on
\* ZeroDivisionError; a reason when avg > 10.
check_ripe_atlas_status(ps) ==
    LET total == Len(ps.connected \o ps.disconnected)
        disconnected == Len(ps.disconnected)
    IN  IF total # 0 /\ 100 * disconnected > atlas_probe_threshold * total
        THEN {[key |-> "probes", kind |-> "disconnected"]}
        ELSE {}

-----------------------------------------------------------------------------
(* Aggregation and the status ladder, main.py 455-483.                     *)

\* len(reasons) per category
reason_counts(reasons) == [c \in Categories |-> Cardinality(reasons[c])]

RECURSIVE weighted_sum(_, _)
weighted_sum(counts, cats) ==
    IF cats = {} THEN 0
    ELSE LET c == CHOOSE x \in cats : TRUE
         IN  counts[c] * weighting[c] + weighted_sum(counts, cats \ {c})

\* main.py 455-457.  The score is [tenths, ulp]: its exact value in tenths
\* and the sign of the floating-point error of the float the code holds.
\* The error matters only when the exact value is a whole number (the
\* ladder's thresholds are whole) and 0.1 or 0.2 multiples were added.
weighted_scores(counts) ==
    LET t == weighted_sum(counts, Categories)
    IN  {[tenths |-> t, ulp |-> u] :
            u \in IF t % 10 = 0 /\ (counts["origins"] > 0 \/ counts["prefixes"] > 0)
                  THEN {-1, 0, 1} ELSE {0}}

\* main.py 458
unweighted_sum(counts) ==
    counts["origins"] + counts["prefixes"] + counts["dns_root"]
    + counts["atlas_connected"] + counts["invalid_roa"] + counts["total_roa"]
    + counts["dfz"]

\* A faulty variant of greater: >= in place of >.
greater_or_equal(w, threshold) ==
    \/ w.tenths > 10 * threshold
    \/ w.tenths = 10 * threshold /\ w.ulp >= 0

\* weighted_reasons > threshold
greater(w, threshold) ==
    \/ w.tenths > 10 * threshold
    \/ w.tenths = 10 * threshold /\ w.ulp > 0

\* A faulty variant of ladder: the labels of the >10 and >5 branches exchanged.
ladder_swapped(w) ==
    IF greater(w, 200) THEN "The Internet is totally, utterly, and completely fucked"
    ELSE IF greater(w, 100) THEN "The Internet is completely fucked"
    ELSE IF greater(w, 60) THEN "The Internet is utterly fucked"
    ELSE IF greater(w, 50) THEN "The Internet is totally fucked"
    ELSE IF greater(w, 40) THEN "The Internet is really fucked"
    ELSE IF greater(w, 30) THEN "The Internet is rather fucked"
    ELSE IF greater(w, 20) THEN "The Internet is quite fucked"
    ELSE IF greater(w, 15) THEN "The Internet is pretty fucked"
    ELSE IF greater(w, 10) THEN "The Internet is partially fucked"
    ELSE IF greater(w, 5) THEN "The Internet is somewhat fucked"
    ELSE IF greater(w, 0) THEN "The Internet is just a bit fucked"
    ELSE "The Internet is fucked no more than usual"

\* main.py 460-483
ladder(w) ==
    IF greater(w, 200) THEN "The Internet is totally, utterly, and completely fucked"
    ELSE IF greater(w, 100) THEN "The Internet is completely fucked"
    ELSE IF greater(w, 60) THEN "The Internet is utterly fucked"
    ELSE IF greater(w, 50) THEN "The Internet is totally fucked"
    ELSE IF greater(w, 40) THEN "The Internet is really fucked"
    ELSE IF greater(w, 30) THEN "The Internet is rather fucked"
    ELSE IF greater(w, 20) THEN "The Internet is quite fucked"
    ELSE IF greater(w, 15) THEN "The Internet is pretty fucked"
    ELSE IF greater(w, 10) THEN "The Internet is somewhat fucked"
    ELSE IF greater(w, 5) THEN "The Internet is partially fucked"
    ELSE IF greater(w, 0) THEN "The Internet is just a bit fucked"
    ELSE "The Internet is fucked no more than usual"

-----------------------------------------------------------------------------
(* Bounds of the model and the inputs the providers are taken to supply.   *)

MaxCycles == 3

EmptyDict == [k \in {} |-> <<>>]

Pfx4 == <<"1", "0", ".", "0", ".", "0", ".", "0", "/", "8">>
Pfx6 == <<"2", "0", "0", "1", ":", "d", "b", "8", ":", ":", "/", "3", "2">>
PfxAny6 == <<":", ":", "/", "0">>

Rows ==
    {[ASN |-> a, CIDR |-> p] : a \in {64500, 64501}, p \in {Pfx4, Pfx6}}
    \cup {[ASN |-> 64500, CIDR |-> PfxAny6]}

Tables == SUBSET Rows

\* One repository of the validator's status: its invalid and valid ROAs.
RepoStatus == {[invalidROAs |-> 0, validROAs |-> 10], [invalidROAs |-> 1, validROAs |-> 9]}

\* The validator's "repositories" object, in its order; the last one is a
\* single repository that publishes no ROA at all.
RpkiStatuses ==
    {<<>>}
    \cup {<<[repo |-> "ripe", st |-> [invalidROAs |-> 0, validROAs |-> 0]]>>}
    \cup {<<[repo |-> "ripe", st |-> a]>> : a \in RepoStatus}
    \cup {<<[repo |-> "ripe", st |-> a], [repo |-> "arin", st |-> b]>> :
            a \in RepoStatus, b \in RepoStatus}

\* fetch_rpki_roa, main.py 128-135
fetch_invalid_roa(repositories) ==
    [i \in 1..Len(repositories) |->
        <<repositories[i].repo, repositories[i].st.invalidROAs>>]

fetch_total_roa(repositories) ==
    [i \in 1..Len(repositories) |->
        <<repositories[i].repo,
          repositories[i].st.validROAs + repositories[i].st.invalidROAs>>]

Measurement(total, failed) == [total |-> total, failed |-> 1..failed]

\* What fetch_root_dns returns for one family (a root whose fetch failed is
\* absent; a measurement without results has total 0).
DnsDicts ==
    {EmptyDict,
     "a.root-servers.net" :> Measurement(10, 0),
     "a.root-servers.net" :> Measurement(10, 3),
     "a.root-servers.net" :> Measurement(0, 0),
     ("a.root-servers.net" :> Measurement(10, 3))
        @@ ("b.root-servers.net" :> Measurement(10, 2))}

\* What fetch_ripe_atlas_status returns; both lists are empty when the
\* fetch failed (main.py 39-47).
ProbeStatuses ==
    {[connected |-> [i \in 1..c |-> i], disconnected |-> [i \in 1..d |-> 100 + i]] :
        <<c, d>> \in {<<0, 0>>, <<9, 1>>, <<8, 2>>}}

\* The seconds a cycle can take from `before` to `after`: a minute, exactly
\* update_frequency, and a day and a minute (a fetch that hangs; the
\* requests are made without a timeout).
Durations == {60, update_frequency, 86400 + 60}

NoReasons == [c \in Categories |-> {}]

NoRecord ==
    [origins |-> EmptyDict, prefixes |-> EmptyDict,
     dfz |-> [v6 |-> <<>>, v4 |-> <<>>],
     invalid_roa |-> EmptyDict, total_roa |-> EmptyDict]

\* History variable `recorded`: the full log of a key, newest first.
log_counts(counts, log) ==
    [k \in DOMAIN log \cup DOMAIN counts |->
        IF k \in DOMAIN counts
        THEN IF k \in DOMAIN log THEN <<counts[k]>> \o log[k] ELSE <<counts[k]>>
        ELSE log[k]]

RECURSIVE log_roa(_, _)
log_roa(roa, log) ==
    IF roa = <<>> THEN log
    ELSE log_roa(Tail(roa), log_counts(Head(roa)[1] :> Head(roa)[2], log))

-----------------------------------------------------------------------------
(* main(): the state after lines 411-419, and one action per step of the   *)
(* loop body.                                                              *)

Init ==
    /\ pc = "reset"
    /\ cycle = 1
    /\ results_bound = TRUE
    /\ error = "none"
    /\ table = {}
    /\ num_origins_history = EmptyDict
    /\ num_prefixes_history = EmptyDict
    /\ num_dfz_routes_history = [v6 |-> <<>>, v4 |-> <<>>]
    /\ rpki_invalid_roa_history = EmptyDict
    /\ rpki_total_roa_history = EmptyDict
    /\ invalid_roa = <<>>
    /\ total_roa = <<>>
    /\ v6_roots_failed = EmptyDict
    /\ v4_roots_failed = EmptyDict
    /\ probe_status = [connected |-> <<>>, disconnected |-> <<>>]
    /\ fucked_reasons = NoReasons
    /\ v6_pc = -1
    /\ v4_pc = -1
    /\ weighted_reasons = [tenths |-> 0, ulp |-> 0]
    /\ unweighted_reasons = 0
    /\ status = "unset"
    /\ recorded = NoRecord
    /\ degenerate = FALSE
    /\ calls = 0
    /\ duration = 0
    /\ period = 0

\* A faulty variant of Reset: the reason lists of the previous cycle are kept.
Reset_keeps_reasons ==
    /\ pc = "reset"
    /\ pc' = "fetch_bgp"
    /\ UNCHANGED <<cycle, results_bound, error, table, num_origins_history,
                      num_prefixes_history, num_dfz_routes_history,
                      rpki_invalid_roa_history, rpki_total_roa_history,
                      invalid_roa, total_roa, v6_roots_failed,
                      v4_roots_failed, probe_status, fucked_reasons, v6_pc,
                      v4_pc, weighted_reasons, unweighted_reasons, status,
                      recorded, degenerate, calls, duration, period>>

\* main.py 423-426
Reset ==
    /\ pc = "reset"
    /\ fucked_reasons' = NoReasons
    /\ pc' = "fetch_bgp"
    /\ UNCHANGED <<cycle, results_bound, error, table, num_origins_history,
                   num_prefixes_history, num_dfz_routes_history,
                   rpki_invalid_roa_history, rpki_total_roa_history,
                   invalid_roa, total_roa, v6_roots_failed, v4_roots_failed,
                   probe_status, v6_pc, v4_pc, weighted_reasons,
                   unweighted_reasons, status, recorded, degenerate,
                   calls, duration, period>>

\* main.py 429.  A table without any prefix of one family is a provider
\* that gave no data.
FetchBgpTable ==
    /\ pc = "fetch_bgp"
    /\ \E rows \in Tables :
        /\ table' = rows
        /\ degenerate' =
              (degenerate
               \/ dfz_counts(DOMAIN table_pfx_key(rows)).v6 = 0
               \/ dfz_counts(DOMAIN table_pfx_key(rows)).v4 = 0)
    /\ pc' = "origins"
    /\ UNCHANGED <<cycle, results_bound, error, num_origins_history,
                   num_prefixes_history, num_dfz_routes_history,
                   rpki_invalid_roa_history, rpki_total_roa_history,
                   invalid_roa, total_roa, v6_roots_failed, v4_roots_failed,
                   probe_status, fucked_reasons, v6_pc, v4_pc,
                   weighted_reasons, unweighted_reasons, status, recorded,
                   calls, duration, period>>

\* main.py 430
CheckBgpOrigins ==
    /\ pc = "origins"
    /\ LET r == check_bgp_origins(table_pfx_key(table), num_origins_history)
       IN  /\ num_origins_history' = r.history
           /\ fucked_reasons' = [fucked_reasons EXCEPT !["origins"] = r.reasons]
    /\ recorded' = [recorded EXCEPT
                      !.origins = log_counts(table_pfx_key(table), @)]
    /\ pc' = "prefixes"
    /\ UNCHANGED <<cycle, results_bound, error, table, num_prefixes_history,
                   num_dfz_routes_history, rpki_invalid_roa_history,
                   rpki_total_roa_history, invalid_roa, total_roa,
                   v6_roots_failed, v4_roots_failed, probe_status, v6_pc,
                   v4_pc, weighted_reasons, unweighted_reasons, status,
                   degenerate, calls, duration, period>>

\* main.py 431
CheckBgpPrefixes ==
    /\ pc = "prefixes"
    /\ LET h == record_counts(table_asn_key(table), num_prefixes_history)
       IN  /\ num_prefixes_history' = h
           /\ \E reasons \in prefixes_reasons(h) :
                fucked_reasons' = [fucked_reasons EXCEPT !["prefixes"] = reasons]
    /\ recorded' = [recorded EXCEPT
                      !.prefixes = log_counts(table_asn_key(table), @)]
    /\ pc' = "dfz"
    /\ UNCHANGED <<cycle, results_bound, error, table, num_origins_history,
                   num_dfz_routes_history, rpki_invalid_roa_history,
                   rpki_total_roa_history, invalid_roa, total_roa,
                   v6_roots_failed, v4_roots_failed, probe_status, v6_pc,
                   v4_pc, weighted_reasons, unweighted_reasons, status,
                   degenerate, calls, duration, period>>

\* check_dfz returning normally, main.py 316-359
check_dfz_returns(v6_dfz_count, v4_dfz_count) ==
    LET h == dfz_record(num_dfz_routes_history, v6_dfz_count, v4_dfz_count)
    IN  /\ dfz_divides(h.v6) /\ dfz_divides(h.v4)
        /\ num_dfz_routes_history' = h
        /\ \E p6 \in dfz_pc(h.v6), p4 \in dfz_pc(h.v4) :
            /\ v6_pc' = p6
            /\ v4_pc' = p4
            /\ fucked_reasons' =
                  [fucked_reasons EXCEPT !["dfz"] = dfz_reasons(p6, p4)]
        /\ recorded' = [recorded EXCEPT
                          !.dfz = [v6 |-> <<v6_dfz_count>> \o @.v6,
                                   v4 |-> <<v4_dfz_count>> \o @.v4]]

\* check_dfz raising ZeroDivisionError at line 325 or 343; both windows
\* have been updated in place by then, and no reason is returned.
check_dfz_raises(v6_dfz_count, v4_dfz_count) ==
    LET h == dfz_record(num_dfz_routes_history, v6_dfz_count, v4_dfz_count)
    IN  /\ ~(dfz_divides(h.v6) /\ dfz_divides(h.v4))
        /\ num_dfz_routes_history' = h
        /\ recorded' = [recorded EXCEPT
                          !.dfz = [v6 |-> <<v6_dfz_count>> \o @.v6,
                                   v4 |-> <<v4_dfz_count>> \o @.v4]]
        /\ UNCHANGED <<v6_pc, v4_pc, fucked_reasons>>

\* main.py 432
CheckDfz ==
    /\ pc = "dfz"
    /\ LET c == dfz_counts(DOMAIN table_pfx_key(table))
       IN  \/ /\ check_dfz_returns(c.v6, c.v4)
              /\ pc' = "store_bgp"
              /\ error' = error
           \/ /\ check_dfz_raises(c.v6, c.v4)
              /\ pc' = "crashed"
              /\ error' = "ZeroDivisionError"
    /\ UNCHANGED <<cycle, results_bound, table, num_origins_history,
                      num_prefixes_history, rpki_invalid_roa_history,
                      rpki_total_roa_history, invalid_roa, total_roa,
                      v6_roots_failed, v4_roots_failed, probe_status,
                      weighted_reasons, unweighted_reasons, status,
                      degenerate, calls, duration, period>>

\* main.py 434-435: results['bgp'] = ... raises UnboundLocalError once
\* `del results` (line 520) has run.
StoreBgpResults ==
    /\ pc = "store_bgp"
    /\ \/ /\ results_bound
          /\ table' = {}
          /\ pc' = "fetch_rpki"
          /\ error' = error
       \/ /\ ~results_bound
          /\ table' = table
          /\ pc' = "crashed"
          /\ error' = "UnboundLocalError"
    /\ UNCHANGED <<cycle, results_bound, num_origins_history,
                      num_prefixes_history, num_dfz_routes_history,
                      rpki_invalid_roa_history, rpki_total_roa_history,
                      invalid_roa, total_roa, v6_roots_failed,
                      v4_roots_failed, probe_status, fucked_reasons, v6_pc,
                      v4_pc, weighted_reasons, unweighted_reasons, status,
                      recorded, degenerate, calls, duration, period>>

\* main.py 438: fetch_rpki_roa catches nothing, so a failed fetch raises
\* out of main.
FetchRpkiRoa ==
    /\ pc = "fetch_rpki"
    /\ \/ /\ \E repositories \in RpkiStatuses :
                /\ invalid_roa' = fetch_invalid_roa(repositories)
                /\ total_roa' = fetch_total_roa(repositories)
                /\ degenerate' = (degenerate \/ repositories = <<>>)
          /\ pc' = "invalids"
          /\ error' = error
       \/ /\ pc' = "crashed"
          /\ error' = "RequestException"
          /\ degenerate' = TRUE
          /\ UNCHANGED <<invalid_roa, total_roa>>
    /\ UNCHANGED <<cycle, results_bound, table, num_origins_history,
                      num_prefixes_history, num_dfz_routes_history,
                      rpki_invalid_roa_history, rpki_total_roa_history,
                      v6_roots_failed, v4_roots_failed, probe_status,
                      fucked_reasons, v6_pc, v4_pc, weighted_reasons,
                      unweighted_reasons, status, recorded, calls,
                      duration, period>>

\* main.py 439
CheckRpkiInvalids ==
    /\ pc = "invalids"
    /\ LET r == check_rpki_invalids(invalid_roa, rpki_invalid_roa_history)
       IN  /\ rpki_invalid_roa_history' = r.history
           /\ fucked_reasons' = [fucked_reasons EXCEPT !["invalid_roa"] = r.reasons]
    /\ recorded' = [recorded EXCEPT !.invalid_roa = log_roa(invalid_roa, @)]
    /\ pc' = "totals"
    /\ UNCHANGED <<cycle, results_bound, error, table, num_origins_history,
                      num_prefixes_history, num_dfz_routes_history,
                      rpki_total_roa_history, invalid_roa, total_roa,
                      v6_roots_failed, v4_roots_failed, probe_status, v6_pc,
                      v4_pc, weighted_reasons, unweighted_reasons, status,
                      degenerate, calls, duration, period>>

\* main.py 440-443
CheckRpkiTotals ==
    /\ pc = "totals"
    /\ LET r == check_rpki_totals(total_roa, rpki_total_roa_history)
       IN  /\ rpki_total_roa_history' = r.history
           /\ fucked_reasons' = [fucked_reasons EXCEPT !["total_roa"] = r.reasons]
    /\ recorded' = [recorded EXCEPT !.total_roa = log_roa(total_roa, @)]
    /\ invalid_roa' = <<>>
    /\ total_roa' = <<>>
    /\ pc' = "fetch_dns"
    /\ UNCHANGED <<cycle, results_bound, error, table, num_origins_history,
                      num_prefixes_history, num_dfz_routes_history,
                      rpki_invalid_roa_history, v6_roots_failed,
                      v4_roots_failed, probe_status, v6_pc, v4_pc,
                      weighted_reasons, unweighted_reasons, status,
                      degenerate, calls, duration, period>>

\* main.py 446.  A family without any measurement, or a measurement with
\* no probe results, is a provider that gave no data.
FetchRootDns ==
    /\ pc = "fetch_dns"
    /\ \E v6 \in DnsDicts, v4 \in DnsDicts :
        /\ v6_roots_failed' = v6
        /\ v4_roots_failed' = v4
        /\ degenerate' =
              (degenerate \/ ~dns_divides(v6) \/ ~dns_divides(v4)
               \/ v6 = EmptyDict \/ v4 = EmptyDict)
    /\ pc' = "dns"
    /\ UNCHANGED <<cycle, results_bound, error, table, num_origins_history,
                      num_prefixes_history, num_dfz_routes_history,
                      rpki_invalid_roa_history, rpki_total_roa_history,
                      invalid_roa, total_roa, probe_status, fucked_reasons,
                      v6_pc, v4_pc, weighted_reasons, unweighted_reasons,
                      status, recorded, calls, duration, period>>

\* main.py 447
CheckDnsRoots ==
    /\ pc = "dns"
    /\ \/ /\ dns_divides(v6_roots_failed) /\ dns_divides(v4_roots_failed)
          /\ \E reasons \in check_dns_roots(v6_roots_failed, v4_roots_failed) :
                fucked_reasons' = [fucked_reasons EXCEPT !["dns_root"] = reasons]
          /\ pc' = "fetch_atlas"
          /\ error' = error
       \/ /\ ~(dns_divides(v6_roots_failed) /\ dns_divides(v4_roots_failed))
          /\ fucked_reasons' = fucked_reasons
          /\ pc' = "crashed"
          /\ error' = "ZeroDivisionError"
    /\ UNCHANGED <<cycle, results_bound, table, num_origins_history,
                      num_prefixes_history, num_dfz_routes_history,
                      rpki_invalid_roa_history, rpki_total_roa_history,
                      invalid_roa, total_roa, v6_roots_failed,
                      v4_roots_failed, probe_status, v6_pc, v4_pc,
                      weighted_reasons, unweighted_reasons, status,
                      recorded, degenerate, calls, duration, period>>

\* main.py 449
FetchRipeAtlasStatus ==
    /\ pc = "fetch_atlas"
    /\ \E ps \in ProbeStatuses :
        /\ probe_status' = ps
        /\ degenerate' = (degenerate \/ Len(ps.connected \o ps.disconnected) = 0)
    /\ pc' = "atlas"
    /\ UNCHANGED <<cycle, results_bound, error, table, num_origins_history,
                      num_prefixes_history, num_dfz_routes_history,
                      rpki_invalid_roa_history, rpki_total_roa_history,
                      invalid_roa, total_roa, v6_roots_failed,
                      v4_roots_failed, fucked_reasons, v6_pc, v4_pc,
                      weighted_reasons, unweighted_reasons, status,
                      recorded, calls, duration, period>>

\* main.py 450-453
CheckRipeAtlasStatus ==
    /\ pc = "atlas"
    /\ fucked_reasons' =
          [fucked_reasons EXCEPT
             !["atlas_connected"] = check_ripe_atlas_status(probe_status)]
    /\ v6_roots_failed' = EmptyDict
    /\ v4_roots_failed' = EmptyDict
    /\ probe_status' = [connected |-> <<>>, disconnected |-> <<>>]
    /\ pc' = "classify"
    /\ UNCHANGED <<cycle, results_bound, error, table, num_origins_history,
                      num_prefixes_history, num_dfz_routes_history,
                      rpki_invalid_roa_history, rpki_total_roa_history,
                      invalid_roa, total_roa, v6_pc, v4_pc,
                      weighted_reasons, unweighted_reasons, status,
                      recorded, degenerate, calls, duration, period>>

\* main.py 455-485
Classify ==
    /\ pc = "classify"
    /\ \E w \in weighted_scores(reason_counts(fucked_reasons)) :
        /\ weighted_reasons' = w
        /\ status' = ladder(w)
    /\ unweighted_reasons' = unweighted_sum(reason_counts(fucked_reasons))
    /\ pc' = "write"
    /\ UNCHANGED <<cycle, results_bound, error, table, num_origins_history,
                      num_prefixes_history, num_dfz_routes_history,
                      rpki_invalid_roa_history, rpki_total_roa_history,
                      invalid_roa, total_roa, v6_roots_failed,
                      v4_roots_failed, probe_status, fucked_reasons, v6_pc,
                      v4_pc, recorded, degenerate, calls, duration, period>>

\* timedelta.seconds for a non-negative timedelta of d whole seconds: the
\* seconds component, the whole days being held in timedelta.days.
timedelta_seconds(d) == d % 86400

\* main.py 487-520: the output files are written, `duration` is measured
\* (lines 503-504) and `results` is deleted.
WriteOutput ==
    /\ pc = "write"
    /\ results_bound' = FALSE
    /\ \E elapsed \in Durations : duration' = elapsed
    /\ pc' = "sleep"
    /\ UNCHANGED <<cycle, error, table, num_origins_history,
                   num_prefixes_history, num_dfz_routes_history,
                   rpki_invalid_roa_history, rpki_total_roa_history,
                   invalid_roa, total_roa, v6_roots_failed,
                   v4_roots_failed, probe_status, fucked_reasons, v6_pc,
                   v4_pc, weighted_reasons, unweighted_reasons, status,
                   recorded, degenerate, calls, period>>

\* main.py 522-525: the seconds slept before the next iteration
sleep_seconds(d) ==
    IF timedelta_seconds(d) < update_frequency
    THEN update_frequency - timedelta_seconds(d)
    ELSE 0

\* main.py 522-525, then the next iteration of `while True`
Sleep ==
    /\ pc = "sleep"
    /\ cycle < MaxCycles
    /\ cycle' = cycle + 1
    /\ period' = duration + sleep_seconds(duration)
    /\ pc' = "reset"
    /\ UNCHANGED <<results_bound, error, table, num_origins_history,
                   num_prefixes_history, num_dfz_routes_history,
                   rpki_invalid_roa_history, rpki_total_roa_history,
                   invalid_roa, total_roa, v6_roots_failed,
                   v4_roots_failed, probe_status, fucked_reasons, v6_pc,
                   v4_pc, weighted_reasons, unweighted_reasons, status,
                   recorded, degenerate, calls, duration>>

Next ==
    \/ Reset
    \/ FetchBgpTable
    \/ CheckBgpOrigins
    \/ CheckBgpPrefixes
    \/ CheckDfz
    \/ StoreBgpResults
    \/ FetchRpkiRoa
    \/ CheckRpkiInvalids
    \/ CheckRpkiTotals
    \/ FetchRootDns
    \/ CheckDnsRoots
    \/ FetchRipeAtlasStatus
    \/ CheckRipeAtlasStatus
    \/ Classify
    \/ WriteOutput
    \/ Sleep

Spec == Init /\ [][Next]_vars

-----------------------------------------------------------------------------
(* The aggregation and the ladder as a function of the reason lists:      *)
(* lines 455-485 applied to reason lists drawn from bounded sets.          *)

MaxOriginReasons == 3
MaxPrefixReasons == 4
MaxDnsReasons == 21
MaxRoaReasons == 2

\* n distinct reasons of a category
SomeReasons(category, n) == {[key |-> i, kind |-> category] : i \in 1..n}

InitClassify ==
    /\ \E o \in 0..MaxOriginReasons, p \in 0..MaxPrefixReasons,
          d \in 0..MaxDnsReasons, a \in 0..1, i \in 0..MaxRoaReasons,
          t \in 0..MaxRoaReasons, z \in 0..2 :
        fucked_reasons =
            [origins |-> SomeReasons("origins", o),
             prefixes |-> SomeReasons("prefixes", p),
             dns_root |-> SomeReasons("dns_root", d),
             atlas_connected |-> SomeReasons("atlas_connected", a),
             invalid_roa |-> SomeReasons("invalid_roa", i),
             total_roa |-> SomeReasons("total_roa", t),
             dfz |-> SomeReasons("dfz", z)]
    /\ pc = "classify"
    /\ cycle = 1
    /\ results_bound = TRUE
    /\ error = "none"
    /\ table = {}
    /\ num_origins_history = EmptyDict
    /\ num_prefixes_history = EmptyDict
    /\ num_dfz_routes_history = [v6 |-> <<>>, v4 |-> <<>>]
    /\ rpki_invalid_roa_history = EmptyDict
    /\ rpki_total_roa_history = EmptyDict
    /\ invalid_roa = <<>>
    /\ total_roa = <<>>
    /\ v6_roots_failed = EmptyDict
    /\ v4_roots_failed = EmptyDict
    /\ probe_status = [connected |-> <<>>, disconnected |-> <<>>]
    /\ v6_pc = -1
    /\ v4_pc = -1
    /\ weighted_reasons = [tenths |-> 0, ulp |-> 0]
    /\ unweighted_reasons = 0
    /\ status = "unset"
    /\ recorded = NoRecord
    /\ degenerate = FALSE
    /\ calls = 0
    /\ duration = 0
    /\ period = 0

NextClassify == Classify

ClassifySpec == InitClassify /\ [][NextClassify]_vars

-----------------------------------------------------------------------------
(* Properties of the aggregation and the ladder (ClassifySpec).            *)

\* The twelve labels from least to most severe, and the threshold above
\* which each label but the first applies.
Labels ==
    <<"The Internet is fucked no more than usual",
      "The Internet is just a bit fucked",
      "The Internet is partially fucked",
      "The Internet is somewhat fucked",
      "The Internet is pretty fucked",
      "The Internet is quite fucked",
      "The Internet is rather fucked",
      "The Internet is really fucked",
      "The Internet is totally fucked",
      "The Internet is utterly fucked",
      "The Internet is completely fucked",
      "The Internet is totally, utterly, and completely fucked">>

Thresholds == <<0, 5, 10, 15, 20, 30, 40, 50, 60, 100, 200>>

Rank(label) == CHOOSE i \in 1..Len(Labels) : Labels[i] = label

Classified == pc = "write"

ScenarioWeighting ==
    [c \in Categories |->
        IF c = "origins" THEN 3 ELSE IF c = "dns_root" THEN 1 ELSE 0]

\* C2 as stated: three origins reasons and one dns_root reason (score 10.3)
\* are classified into the ">5" tier, "partially".
C2_Original ==
    (Classified /\ reason_counts(fucked_reasons) = ScenarioWeighting)
        => status = "The Internet is partially fucked"

\* C2 amended: three origins reasons and one dns_root reason give the
\* weighted score 10.3, which is greater than 10, so the status is the
\* ">10" tier, "somewhat".
C2_Amended ==
    (Classified /\ reason_counts(fucked_reasons) = ScenarioWeighting)
        => /\ weighted_reasons = [tenths |-> 103, ulp |-> 0]
           /\ status = "The Internet is somewhat fucked"

C2_Witness ==
    /\ Classified
    /\ reason_counts(fucked_reasons) = ScenarioWeighting
    /\ unweighted_reasons = 4

\* The thresholds the held score is strictly greater than.
Exceeded ==
    {i \in 1..Len(Thresholds) :
        \/ weighted_reasons.tenths > 10 * Thresholds[i]
        \/ weighted_reasons.tenths = 10 * Thresholds[i] /\ weighted_reasons.ulp = 1}

\* C7: every non-negative score gets exactly one of the twelve labels: the
\* label of the largest threshold the score is strictly greater than, the
\* baseline label when it is greater than none (score 0); a score equal to
\* a threshold gets the label of the tier below.
C7_LadderTotal ==
    Classified =>
        /\ weighted_reasons.tenths >= 0
        /\ Cardinality({i \in 1..Len(Labels) : Labels[i] = status}) = 1
        /\ status =
             IF Exceeded = {} THEN Labels[1]
             ELSE Labels[1 + CHOOSE i \in Exceeded : \A j \in Exceeded : j <= i]
        /\ \A i \in 1..Len(Thresholds) :
             (weighted_reasons.tenths = 10 * Thresholds[i] /\ weighted_reasons.ulp = 0)
                => status = Labels[i]

\* A score of exactly 10 is classified ">5", a score of exactly 200 ">100".
C7_Witness ==
    /\ Classified
    /\ weighted_reasons = [tenths |-> 100, ulp |-> 0]
    /\ status = "The Internet is partially fucked"

\* The reason counts with n more reasons in category c
Raised(counts, c, n) == [counts EXCEPT ![c] = @ + n]

\* C8: raising the reason count of one category never lowers the weighted
\* score and never gives a less severe status.
C8_Monotone ==
    Classified =>
        \A c \in Categories, n \in 1..2 :
            \A w \in weighted_scores(Raised(reason_counts(fucked_reasons), c, n)) :
                /\ w.tenths >= weighted_reasons.tenths
                /\ Rank(ladder(w)) >= Rank(status)

\* A state from which one more origins reason crosses into the next tier.
C8_Witness ==
    /\ Classified
    /\ reason_counts(fucked_reasons)["origins"] > 0
    /\ \E w \in weighted_scores(Raised(reason_counts(fucked_reasons), "origins", 1)) :
          Rank(ladder(w)) > Rank(status)

-----------------------------------------------------------------------------
(* check_bgp_origins as a function of its two arguments: it is called on   *)
(* a history that earlier calls have left (a prefix recorded n times with  *)
(* one origin, an anycast prefix recorded with five or seven) and a table  *)
(* drawn from a bounded set.                                               *)

MaxCalls == 1
MaxOrigins == 26

\* A table in which prefix p is originated by the ASNs 1..n
OriginatedBy(p, n) == {[ASN |-> a, CIDR |-> p] : a \in 1..n}

OriginTables ==
    {OriginatedBy(Pfx4, c) \cup OriginatedBy(Pfx6, d) :
        c \in 0..MaxOrigins, d \in {0, 1, 6}}

OriginHistories ==
    {h4 @@ h6 :
        h4 \in {EmptyDict} \cup {Pfx4 :> Repeat(1, n) : n \in 1..max_history},
        h6 \in {EmptyDict, Pfx6 :> Repeat(5, 3), Pfx6 :> Repeat(7, 3)}}

InitOrigins ==
    /\ \E h \in OriginHistories :
        /\ num_origins_history = h
        /\ recorded = [NoRecord EXCEPT !.origins = h]
    /\ pc = "call"
    /\ cycle = 1
    /\ results_bound = TRUE
    /\ error = "none"
    /\ table = {}
    /\ num_prefixes_history = EmptyDict
    /\ num_dfz_routes_history = [v6 |-> <<>>, v4 |-> <<>>]
    /\ rpki_invalid_roa_history = EmptyDict
    /\ rpki_total_roa_history = EmptyDict
    /\ invalid_roa = <<>>
    /\ total_roa = <<>>
    /\ v6_roots_failed = EmptyDict
    /\ v4_roots_failed = EmptyDict
    /\ probe_status = [connected |-> <<>>, disconnected |-> <<>>]
    /\ fucked_reasons = NoReasons
    /\ v6_pc = -1
    /\ v4_pc = -1
    /\ weighted_reasons = [tenths |-> 0, ulp |-> 0]
    /\ unweighted_reasons = 0
    /\ status = "unset"
    /\ degenerate = FALSE
    /\ calls = 0
    /\ duration = 0
    /\ period = 0

CallCheckBgpOrigins ==
    /\ pc = "call"
    /\ calls < MaxCalls
    /\ \E rows \in OriginTables :
        /\ table' = rows
        /\ LET r == check_bgp_origins(table_pfx_key(rows), num_origins_history)
           IN  /\ num_origins_history' = r.history
               /\ fucked_reasons' = [NoReasons EXCEPT !["origins"] = r.reasons]
        /\ recorded' = [recorded EXCEPT
                          !.origins = log_counts(table_pfx_key(rows), @)]
    /\ calls' = calls + 1
    /\ UNCHANGED <<pc, cycle, results_bound, error, num_prefixes_history,
                      num_dfz_routes_history, rpki_invalid_roa_history,
                      rpki_total_roa_history, invalid_roa, total_roa,
                      v6_roots_failed, v4_roots_failed, probe_status, v6_pc,
                      v4_pc, weighted_reasons, unweighted_reasons, status,
                      degenerate, duration, period>>

NextOrigins == CallCheckBgpOrigins

OriginsSpec == InitOrigins /\ [][NextOrigins]_vars

\* The prefix was in the table of the latest call, its count c there is
\* greater than 1, and every sample recorded for it before is 1.
JustExceededSingleOrigin(p) ==
    /\ calls >= 1
    /\ p \in DOMAIN table_pfx_key(table)
    /\ p \in DOMAIN recorded.origins
    /\ Len(recorded.origins[p]) >= 2
    /\ recorded.origins[p][1] > 1
    /\ \A i \in 2..Len(recorded.origins[p]) : recorded.origins[p][i] = 1

HijackReason(p) == [key |-> p, kind |-> "above"] \in fucked_reasons["origins"]

\* C9 as stated: a prefix whose earlier samples are all 1 and whose new
\* origin count c is greater than 1 gets a hijack-suspicion reason in the
\* same call, for every c > 1.
C9_Original ==
    \A p \in DOMAIN recorded.origins :
        JustExceededSingleOrigin(p) => HijackReason(p)

\* The number of earlier samples that share the window with the new one
EarlierInWindow(p) == Min(Len(recorded.origins[p]) - 1, max_history - 1)

\* C9 amended: a prefix whose earlier samples are all 1 and whose new
\* origin count c is greater than 1 gets a hijack-suspicion reason in the
\* same call exactly when c < n + 2, n being the number of earlier samples
\* still in the window (at most max_history - 1): the average includes the
\* new sample and must stay below 2.
C9_Amended ==
    \A p \in DOMAIN recorded.origins :
        JustExceededSingleOrigin(p) =>
            (HijackReason(p) <=> recorded.origins[p][1] < EarlierInWindow(p) + 2)

\* The scenario of the specification: history [1,1,1], new observation 3.
C9_Witness ==
    /\ JustExceededSingleOrigin(Pfx4)
    /\ recorded.origins[Pfx4] = <<3, 1, 1, 1>>
    /\ HijackReason(Pfx4)

-----------------------------------------------------------------------------
(* check_dfz as a function of the two route counts and the DFZ history:    *)
(* it is called on windows that n earlier cycles with a constant table     *)
(* size have left, with this cycle's counts drawn from a bounded set.      *)

MaxDelta == 3

\* Route counts of one family: none, a small table around 100 routes, and
\* the table sizes of the specification's scenario.
DfzTotals == {0, 900000, 905000, 920000} \cup ((100 - MaxDelta)..(100 + MaxDelta))

\* The counts of a call, <<v6, v4>>: one family takes any of the totals
\* while the other has no routes or an unchanged table size.
DfzCountPairs ==
    {<<a, t>> : a \in {0, 100, 900000}, t \in DfzTotals}
    \cup {<<t, a>> : a \in {0, 100, 900000}, t \in DfzTotals}

DfzHistories ==
    {[v6 |-> Repeat(b, n), v4 |-> Repeat(b, n)] :
        b \in {100, 900000}, n \in 0..max_history}

InitDfz ==
    /\ \E h \in DfzHistories :
        /\ num_dfz_routes_history = h
        /\ recorded = [NoRecord EXCEPT !.dfz = h]
    /\ pc = "call"
    /\ cycle = 1
    /\ results_bound = TRUE
    /\ error = "none"
    /\ table = {}
    /\ num_origins_history = EmptyDict
    /\ num_prefixes_history = EmptyDict
    /\ rpki_invalid_roa_history = EmptyDict
    /\ rpki_total_roa_history = EmptyDict
    /\ invalid_roa = <<>>
    /\ total_roa = <<>>
    /\ v6_roots_failed = EmptyDict
    /\ v4_roots_failed = EmptyDict
    /\ probe_status = [connected |-> <<>>, disconnected |-> <<>>]
    /\ fucked_reasons = NoReasons
    /\ v6_pc = -1
    /\ v4_pc = -1
    /\ weighted_reasons = [tenths |-> 0, ulp |-> 0]
    /\ unweighted_reasons = 0
    /\ status = "unset"
    /\ degenerate = FALSE
    /\ calls = 0
    /\ duration = 0
    /\ period = 0

CallCheckDfz ==
    /\ pc = "call"
    /\ calls < MaxCalls
    /\ \E counts \in DfzCountPairs :
        LET v6_dfz_count == counts[1]
            v4_dfz_count == counts[2]
        IN
        \/ /\ check_dfz_returns(v6_dfz_count, v4_dfz_count)
           /\ error' = "none"
        \/ /\ check_dfz_raises(v6_dfz_count, v4_dfz_count)
           /\ error' = "ZeroDivisionError"
    /\ calls' = calls + 1
    /\ UNCHANGED <<pc, cycle, results_bound, table, num_origins_history,
                      num_prefixes_history, rpki_invalid_roa_history,
                      rpki_total_roa_history, invalid_roa, total_roa,
                      v6_roots_failed, v4_roots_failed, probe_status,
                      weighted_reasons, unweighted_reasons, status,
                      degenerate, duration, period>>

NextDfz == CallCheckDfz

DfzSpec == InitDfz /\ [][NextDfz]_vars

\* The latest call of check_dfz returned.
DfzReturned == calls >= 1 /\ error = "none"

DfzReason(family, kind) == [key |-> family, kind |-> kind] \in fucked_reasons["dfz"]

\* pc is window[0] / avg * 100 rounded to one decimal, in tenths.
RoundedPercent(pc_tenths, window) ==
    LET d == ScaledDiv(window[1] * Len(window), SumSeq(window), 3)
    IN  \/ pc_tenths = d.q /\ 2 * d.r <= SumSeq(window)
        \/ pc_tenths = d.q + 1 /\ 2 * d.r >= SumSeq(window)

\* The window holds the newest max_history counts, this call's first.
WindowOfLog(window, log) ==
    window = SubSeq(log, 1, Min(Len(log), max_history))

FamilyVerdict(family, pc_tenths, window, log) ==
    /\ WindowOfLog(window, log)
    /\ RoundedPercent(pc_tenths, window)
    /\ DfzReason(family, "increase") <=> pc_tenths - 1000 > 10 * dfz_threshold
    /\ DfzReason(family, "decrease") <=> 1000 - pc_tenths > 10 * dfz_threshold
    /\ ~(DfzReason(family, "increase") /\ DfzReason(family, "decrease"))

\* C10: when check_dfz returns, each family's percentage is computed over
\* the window that already holds this cycle's count; the family has an
\* increase reason exactly when pct - 100 > dfz_threshold, a decrease
\* reason exactly when 100 - pct > dfz_threshold, never both, so the dfz
\* category has 0, 1 or 2 reasons; 23 samples of 900000 followed by 905000
\* give no reason, followed by 920000 an increase reason.
C10_DfzVerdicts ==
    /\ Cardinality(fucked_reasons["dfz"]) \in 0..2
    /\ DfzReturned =>
        /\ FamilyVerdict("v6", v6_pc, num_dfz_routes_history.v6, recorded.dfz.v6)
        /\ FamilyVerdict("v4", v4_pc, num_dfz_routes_history.v4, recorded.dfz.v4)
        /\ \A r \in fucked_reasons["dfz"] :
              r.key \in {"v6", "v4"} /\ r.kind \in {"increase", "decrease"}
        /\ recorded.dfz.v4 = <<905000>> \o Repeat(900000, 23)
              => ~DfzReason("v4", "increase") /\ ~DfzReason("v4", "decrease")
        /\ recorded.dfz.v4 = <<920000>> \o Repeat(900000, 23)
              => DfzReason("v4", "increase")

\* The scenario: 23 samples of 900000, then 920000 for IPv4 (an increase
\* reason) and an unchanged 900000 for IPv6 (no reason).
C10_Witness ==
    /\ DfzReturned
    /\ recorded.dfz.v4 = <<920000>> \o Repeat(900000, 23)
    /\ recorded.dfz.v6 = Repeat(900000, 24)
    /\ fucked_reasons["dfz"] = {[key |-> "v4", kind |-> "increase"]}

-----------------------------------------------------------------------------
(* check_rpki_invalids and check_rpki_totals as functions of the           *)
(* validator's status and the two RPKI histories: they are called on       *)
(* histories that earlier calls have left (one repository recorded n       *)
(* times, or max_history + 1 repositories recorded once).                  *)

RepoName(i) == <<"repository", i>>

\* The repositories RepoName(1..n), all with the same status
Repositories(n, st) == [i \in 1..n |-> [repo |-> RepoName(i), st |-> st]]

CallRepoStatus ==
    {[invalidROAs |-> i, validROAs |-> v] :
        <<i, v>> \in {<<0, 10>>, <<1, 9>>, <<0, 25>>, <<0, 0>>, <<0, 50>>}}

CallRpkiStatuses ==
    {<<>>}
    \cup {Repositories(n, st) : n \in {1, 2, max_history + 1}, st \in CallRepoStatus}
    \cup {<<[repo |-> RepoName(2), st |-> a], [repo |-> RepoName(1), st |-> b]>> :
            a \in CallRepoStatus, b \in CallRepoStatus}

\* <<invalid-ROA history, total-ROA history>>
RpkiHistories ==
    {<<EmptyDict, EmptyDict>>}
    \cup {<<RepoName(1) :> Repeat(0, n), RepoName(1) :> w>> :
            <<n, w>> \in {<<m, Repeat(10, m)>> : m \in 1..max_history}
                         \cup {<<m, Ramp(m)>> : m \in 1..max_history}
                         \cup {<<3, Repeat(1000, 3)>>}}
    \cup {<<[r \in {RepoName(i) : i \in 1..(max_history + 1)} |-> <<0>>],
            [r \in {RepoName(i) : i \in 1..(max_history + 1)} |-> <<10>>]>>}

InitRpki ==
    /\ \E h \in RpkiHistories :
        /\ rpki_invalid_roa_history = h[1]
        /\ rpki_total_roa_history = h[2]
        /\ recorded = [NoRecord EXCEPT !.invalid_roa = h[1], !.total_roa = h[2]]
    /\ pc = "call"
    /\ cycle = 1
    /\ results_bound = TRUE
    /\ error = "none"
    /\ table = {}
    /\ num_origins_history = EmptyDict
    /\ num_prefixes_history = EmptyDict
    /\ num_dfz_routes_history = [v6 |-> <<>>, v4 |-> <<>>]
    /\ invalid_roa = <<>>
    /\ total_roa = <<>>
    /\ v6_roots_failed = EmptyDict
    /\ v4_roots_failed = EmptyDict
    /\ probe_status = [connected |-> <<>>, disconnected |-> <<>>]
    /\ fucked_reasons = NoReasons
    /\ v6_pc = -1
    /\ v4_pc = -1
    /\ weighted_reasons = [tenths |-> 0, ulp |-> 0]
    /\ unweighted_reasons = 0
    /\ status = "unset"
    /\ degenerate = FALSE
    /\ calls = 0
    /\ duration = 0
    /\ period = 0

\* main.py 438-440 on their own
CallCheckRpki ==
    /\ pc = "call"
    /\ calls < MaxCalls
    /\ \E repositories \in CallRpkiStatuses :
        LET inv == fetch_invalid_roa(repositories)
            tot == fetch_total_roa(repositories)
            ri == check_rpki_invalids(inv, rpki_invalid_roa_history)
            rt == check_rpki_totals(tot, rpki_total_roa_history)
        IN  /\ invalid_roa' = inv
            /\ total_roa' = tot
            /\ rpki_invalid_roa_history' = ri.history
            /\ rpki_total_roa_history' = rt.history
            /\ fucked_reasons' =
                  [NoReasons EXCEPT !["invalid_roa"] = ri.reasons,
                                    !["total_roa"] = rt.reasons]
            /\ recorded' = [recorded EXCEPT !.invalid_roa = log_roa(inv, @),
                                            !.total_roa = log_roa(tot, @)]
    /\ calls' = calls + 1
    /\ UNCHANGED <<pc, cycle, results_bound, error, table,
                      num_origins_history, num_prefixes_history,
                      num_dfz_routes_history, v6_roots_failed,
                      v4_roots_failed, probe_status, v6_pc, v4_pc,
                      weighted_reasons, unweighted_reasons, status,
                      degenerate, duration, period>>

NextRpki == CallCheckRpki

RpkiSpec == InitRpki /\ [][NextRpki]_vars

-----------------------------------------------------------------------------
(* Properties of the history windows.                                      *)

\* Every history with its log, as [window, log] functions over one key set
Histories ==
    <<[window |-> num_origins_history, log |-> recorded.origins],
      [window |-> num_prefixes_history, log |-> recorded.prefixes],
      [window |-> rpki_invalid_roa_history, log |-> recorded.invalid_roa],
      [window |-> rpki_total_roa_history, log |-> recorded.total_roa],
      [window |-> num_dfz_routes_history, log |-> recorded.dfz]>>

\* The key has been recorded at least once.
Recorded(h, k) == k \in DOMAIN h.log /\ Len(h.log[k]) >= 1

Distinct(s) == \A i, j \in 1..Len(s) : i # j => s[i] # s[j]

\* C1: in every history, a key recorded N >= 1 times has a window of
\* length min(N, max_history); no window is longer than max_history.
C1_WindowBound ==
    \A i \in 1..Len(Histories) :
        \A k \in DOMAIN Histories[i].log :
            Recorded(Histories[i], k) =>
                /\ k \in DOMAIN Histories[i].window
                /\ Len(Histories[i].window[k])
                      = Min(Len(Histories[i].log[k]), max_history)

\* C6: in every history, a key for which max_history + 1 distinct values
\* have been recorded has as its window the last max_history of them,
\* newest first: only the value recorded first is gone.
C6_EvictsOldest ==
    \A i \in 1..Len(Histories) :
        \A k \in DOMAIN Histories[i].log :
            (/\ Len(Histories[i].log[k]) = max_history + 1
             /\ Distinct(Histories[i].log[k]))
                => Histories[i].window[k]
                      = SubSeq(Histories[i].log[k], 1, max_history)

\* The window of key k in a history, empty when the key is not tracked
WindowOf(h, k) == IF k \in DOMAIN h.window THEN h.window[k] ELSE <<>>

LogOf(h, k) == IF k \in DOMAIN h.log THEN h.log[k] ELSE <<>>

\* The window after recording v: v first, then the previous window in
\* unchanged order, whole or (when it was full) less its oldest element.
AfterRecord(previous, v, window) ==
    /\ Len(window) >= 1
    /\ window[1] = v
    /\ \/ Tail(window) = previous
       \/ /\ Len(previous) >= max_history
          /\ Tail(window) = Front(previous)

\* C5: in every history, right after a value v is recorded for a key
\* (tracked before or not, window full or not), index 0 of the key's
\* window is v and the remaining elements are the previous window in
\* unchanged order.
C5_NewestFirst ==
    [][\A i \in 1..Len(Histories) :
          \A k \in DOMAIN Histories'[i].log :
              Len(LogOf(Histories'[i], k)) = Len(LogOf(Histories[i], k)) + 1
                  => AfterRecord(WindowOf(Histories[i], k),
                                 LogOf(Histories'[i], k)[1],
                                 WindowOf(Histories'[i], k))]_vars

-----------------------------------------------------------------------------
(* Properties of the loop of main() (Spec).                                *)

Crashed == pc = "crashed"

\* C3: a cycle in which a provider supplies no data (a table without
\* prefixes of one family, a failed RPKI fetch, a DNS measurement without
\* probe results) does not abort because of it.
C3_NoAbortOnMissingData ==
    degenerate => ~(Crashed /\ error \in {"ZeroDivisionError", "RequestException"})

\* C4: with well-formed, non-empty provider input every cycle runs to its
\* end and the next one starts; no cycle, the second included, aborts.
C4_EveryCycleCompletes ==
    ~degenerate => ~Crashed

-----------------------------------------------------------------------------
(* Properties of check_rpki_totals (RpkiSpec).                             *)

\* The latest call of the two RPKI detectors has returned.
RpkiReturned == calls >= 1 /\ error = "none"

TotalReason(repo) == [key |-> repo, kind |-> "total"] \in fucked_reasons["total_roa"]

\* The window mean truncated to an integer
TruncatedMean(window) ==
    CHOOSE a \in 0..SumSeq(window) :
        a * Len(window) <= SumSeq(window) /\ SumSeq(window) < (a + 1) * Len(window)

\* C11: for every tracked repository, with avg the window mean truncated
\* to an integer, check_rpki_totals emits a reason exactly when avg # 0 and
\* 100 - latest / avg * 100 > total_roa_threshold (that is, when
\* 100 * latest < (100 - total_roa_threshold) * avg); when avg = 0 nothing
\* is emitted and no error is raised; prior samples [1000, 1000, 1000] and
\* the new total 50 give a reason.
C11_TotalsVerdict ==
    calls >= 1 =>
        /\ error = "none"
        /\ \A r \in fucked_reasons["total_roa"] :
              r.kind = "total" /\ r.key \in DOMAIN rpki_total_roa_history
        /\ \A repo \in DOMAIN rpki_total_roa_history :
              LET totals == rpki_total_roa_history[repo]
                  avg == TruncatedMean(totals)
              IN  /\ avg = 0 => ~TotalReason(repo)
                  /\ TotalReason(repo) <=>
                        (avg # 0
                         /\ 100 * totals[1] < (100 - total_roa_threshold) * avg)
        /\ \A repo \in DOMAIN recorded.total_roa :
              recorded.total_roa[repo] = <<50, 1000, 1000, 1000>>
                  => TotalReason(repo)

\* The scenario: [1000, 1000, 1000], then 50.  A second repository, recorded
\* for the first time with total 0, has avg = 0 and no reason.
C11_Witness ==
    /\ RpkiReturned
    /\ RepoName(1) \in DOMAIN recorded.total_roa
    /\ recorded.total_roa[RepoName(1)] = <<50, 1000, 1000, 1000>>
    /\ TotalReason(RepoName(1))
    /\ RepoName(2) \in DOMAIN rpki_total_roa_history
    /\ rpki_total_roa_history[RepoName(2)] = <<0>>
    /\ ~TotalReason(RepoName(2))

-----------------------------------------------------------------------------
(* The seven detectors called one at a time, in any order, on histories    *)
(* that earlier cycles have left (none, a few samples, full windows) and   *)
(* on provider input drawn from the sets the main loop draws from.  `pc`   *)
(* holds the name of the detector called last.                             *)

Detectors ==
    {"check_bgp_origins", "check_bgp_prefixes", "check_dfz",
     "check_rpki_invalids", "check_rpki_totals", "check_dns_roots",
     "check_ripe_atlas_status"}

\* The five histories after n cycles with the same table and validator
\* status; "arin" and the second ASN were first seen in the latest cycle.
HistoriesAfter(n) ==
    [origins |-> (Pfx4 :> Repeat(1, n)) @@ (Pfx6 :> Repeat(2, n)),
     prefixes |-> (64500 :> Repeat(3, n)) @@ (64501 :> <<1>>),
     dfz |-> [v6 |-> Repeat(1, n), v4 |-> Repeat(2, n)],
     invalid_roa |-> ("ripe" :> Repeat(0, n)) @@ ("arin" :> <<1>>),
     total_roa |-> ("ripe" :> Repeat(10, n)) @@ ("arin" :> <<10>>)]

DetectorHistories == {NoRecord, HistoriesAfter(2), HistoriesAfter(max_history)}

InitDetectors ==
    /\ \E h \in DetectorHistories :
        /\ num_origins_history = h.origins
        /\ num_prefixes_history = h.prefixes
        /\ num_dfz_routes_history = h.dfz
        /\ rpki_invalid_roa_history = h.invalid_roa
        /\ rpki_total_roa_history = h.total_roa
        /\ recorded = h
    /\ pc = "call"
    /\ cycle = 1
    /\ results_bound = TRUE
    /\ error = "none"
    /\ table = {}
    /\ invalid_roa = <<>>
    /\ total_roa = <<>>
    /\ v6_roots_failed = EmptyDict
    /\ v4_roots_failed = EmptyDict
    /\ probe_status = [connected |-> <<>>, disconnected |-> <<>>]
    /\ fucked_reasons = NoReasons
    /\ v6_pc = -1
    /\ v4_pc = -1
    /\ weighted_reasons = [tenths |-> 0, ulp |-> 0]
    /\ unweighted_reasons = 0
    /\ status = "unset"
    /\ degenerate = FALSE
    /\ calls = 0
    /\ duration = 0
    /\ period = 0

\* A detector can be called: none has raised, and the bound is not reached.
CanDetect ==
    /\ pc \in Detectors \cup {"call"}
    /\ error = "none"
    /\ calls < MaxCalls

DetectOrigins ==
    /\ CanDetect
    /\ \E rows \in Tables :
        /\ table' = rows
        /\ LET r == check_bgp_origins(table_pfx_key(rows), num_origins_history)
           IN  /\ num_origins_history' = r.history
               /\ fucked_reasons' = [fucked_reasons EXCEPT !["origins"] = r.reasons]
        /\ recorded' = [recorded EXCEPT
                          !.origins = log_counts(table_pfx_key(rows), @)]
    /\ pc' = "check_bgp_origins"
    /\ calls' = calls + 1
    /\ UNCHANGED <<cycle, results_bound, error, num_prefixes_history,
                      num_dfz_routes_history, rpki_invalid_roa_history,
                      rpki_total_roa_history, invalid_roa, total_roa,
                      v6_roots_failed, v4_roots_failed, probe_status, v6_pc,
                      v4_pc, weighted_reasons, unweighted_reasons, status,
                      degenerate, duration, period>>

DetectPrefixes ==
    /\ CanDetect
    /\ \E rows \in Tables :
        /\ table' = rows
        /\ LET h == record_counts(table_asn_key(rows), num_prefixes_history)
           IN  /\ num_prefixes_history' = h
               /\ \E reasons \in prefixes_reasons(h) :
                    fucked_reasons' = [fucked_reasons EXCEPT !["prefixes"] = reasons]
        /\ recorded' = [recorded EXCEPT
                          !.prefixes = log_counts(table_asn_key(rows), @)]
    /\ pc' = "check_bgp_prefixes"
    /\ calls' = calls + 1
    /\ UNCHANGED <<cycle, results_bound, error, num_origins_history,
                      num_dfz_routes_history, rpki_invalid_roa_history,
                      rpki_total_roa_history, invalid_roa, total_roa,
                      v6_roots_failed, v4_roots_failed, probe_status, v6_pc,
                      v4_pc, weighted_reasons, unweighted_reasons, status,
                      degenerate, duration, period>>

DetectDfz ==
    /\ CanDetect
    /\ \E rows \in Tables :
        /\ table' = rows
        /\ LET c == dfz_counts(DOMAIN table_pfx_key(rows))
           IN  \/ /\ check_dfz_returns(c.v6, c.v4)
                  /\ error' = error
               \/ /\ check_dfz_raises(c.v6, c.v4)
                  /\ error' = "ZeroDivisionError"
    /\ pc' = "check_dfz"
    /\ calls' = calls + 1
    /\ UNCHANGED <<cycle, results_bound, num_origins_history,
                      num_prefixes_history, rpki_invalid_roa_history,
                      rpki_total_roa_history, invalid_roa, total_roa,
                      v6_roots_failed, v4_roots_failed, probe_status,
                      weighted_reasons, unweighted_reasons, status,
                      degenerate, duration, period>>

DetectRpkiInvalids ==
    /\ CanDetect
    /\ \E repositories \in RpkiStatuses :
        LET inv == fetch_invalid_roa(repositories)
            r == check_rpki_invalids(inv, rpki_invalid_roa_history)
        IN  /\ invalid_roa' = inv
            /\ rpki_invalid_roa_history' = r.history
            /\ fucked_reasons' = [fucked_reasons EXCEPT !["invalid_roa"] = r.reasons]
            /\ recorded' = [recorded EXCEPT !.invalid_roa = log_roa(inv, @)]
    /\ pc' = "check_rpki_invalids"
    /\ calls' = calls + 1
    /\ UNCHANGED <<cycle, results_bound, error, table, num_origins_history,
                      num_prefixes_history, num_dfz_routes_history,
                      rpki_total_roa_history, total_roa, v6_roots_failed,
                      v4_roots_failed, probe_status, v6_pc, v4_pc,
                      weighted_reasons, unweighted_reasons, status,
                      degenerate, duration, period>>

DetectRpkiTotals ==
    /\ CanDetect
    /\ \E repositories \in RpkiStatuses :
        LET tot == fetch_total_roa(repositories)
            r == check_rpki_totals(tot, rpki_total_roa_history)
        IN  /\ total_roa' = tot
            /\ rpki_total_roa_history' = r.history
            /\ fucked_reasons' = [fucked_reasons EXCEPT !["total_roa"] = r.reasons]
            /\ recorded' = [recorded EXCEPT !.total_roa = log_roa(tot, @)]
    /\ pc' = "check_rpki_totals"
    /\ calls' = calls + 1
    /\ UNCHANGED <<cycle, results_bound, error, table, num_origins_history,
                      num_prefixes_history, num_dfz_routes_history,
                      rpki_invalid_roa_history, invalid_roa,
                      v6_roots_failed, v4_roots_failed, probe_status, v6_pc,
                      v4_pc, weighted_reasons, unweighted_reasons, status,
                      degenerate, duration, period>>

DetectDnsRoots ==
    /\ CanDetect
    /\ \E v6 \in DnsDicts, v4 \in DnsDicts :
        /\ v6_roots_failed' = v6
        /\ v4_roots_failed' = v4
        /\ \/ /\ dns_divides(v6) /\ dns_divides(v4)
              /\ \E reasons \in check_dns_roots(v6, v4) :
                    fucked_reasons' = [fucked_reasons EXCEPT !["dns_root"] = reasons]
              /\ error' = error
           \/ /\ ~(dns_divides(v6) /\ dns_divides(v4))
              /\ fucked_reasons' = fucked_reasons
              /\ error' = "ZeroDivisionError"
    /\ pc' = "check_dns_roots"
    /\ calls' = calls + 1
    /\ UNCHANGED <<cycle, results_bound, table, num_origins_history,
                      num_prefixes_history, num_dfz_routes_history,
                      rpki_invalid_roa_history, rpki_total_roa_history,
                      invalid_roa, total_roa, probe_status, v6_pc, v4_pc,
                      weighted_reasons, unweighted_reasons, status,
                      recorded, degenerate, duration, period>>

DetectRipeAtlasStatus ==
    /\ CanDetect
    /\ \E ps \in ProbeStatuses :
        /\ probe_status' = ps
        /\ fucked_reasons' =
              [fucked_reasons EXCEPT
                 !["atlas_connected"] = check_ripe_atlas_status(ps)]
    /\ pc' = "check_ripe_atlas_status"
    /\ calls' = calls + 1
    /\ UNCHANGED <<cycle, results_bound, error, table, num_origins_history,
                      num_prefixes_history, num_dfz_routes_history,
                      rpki_invalid_roa_history, rpki_total_roa_history,
                      invalid_roa, total_roa, v6_roots_failed,
                      v4_roots_failed, v6_pc, v4_pc, weighted_reasons,
                      unweighted_reasons, status, recorded, degenerate,
                      duration, period>>

NextDetectors ==
    \/ DetectOrigins
    \/ DetectPrefixes
    \/ DetectDfz
    \/ DetectRpkiInvalids
    \/ DetectRpkiTotals
    \/ DetectDnsRoots
    \/ DetectRipeAtlasStatus

DetectorsSpec == InitDetectors /\ [][NextDetectors]_vars

-----------------------------------------------------------------------------
(* Properties of the detectors' effect on the histories (DetectorsSpec).   *)

\* C12: in every call of a history-updating detector (origins, prefixes,
\* invalid_roa, total_roa), a key that is tracked but absent from the
\* call's input keeps its window unchanged, a key of the input that was not
\* tracked gets the singleton window [value], and no key is removed.
C12_AbsentKeptNewSingleton ==
    [][\A i \in 1..4 :
          /\ \A k \in DOMAIN Histories[i].window :
                /\ k \in DOMAIN Histories'[i].window
                /\ LogOf(Histories'[i], k) = LogOf(Histories[i], k)
                      => Histories'[i].window[k] = Histories[i].window[k]
          /\ \A k \in DOMAIN Histories'[i].window \ DOMAIN Histories[i].window :
                /\ Len(LogOf(Histories'[i], k)) = Len(LogOf(Histories[i], k)) + 1
                /\ Histories'[i].window[k] = <<LogOf(Histories'[i], k)[1]>>]_vars

\* check_bgp_origins was called with a table that holds the prefix ::/0
\* alone: the two tracked prefixes keep their windows, ::/0 starts with [1].
C12_Witness ==
    /\ calls = 1
    /\ pc = "check_bgp_origins"
    /\ table = {[ASN |-> 64500, CIDR |-> PfxAny6]}
    /\ num_origins_history =
          (Pfx4 :> <<1, 1>>) @@ (Pfx6 :> <<2, 2>>) @@ (PfxAny6 :> <<1>>)

\* The category a detector reports to
DetectorCategory ==
    [check_bgp_origins |-> "origins", check_bgp_prefixes |-> "prefixes",
     check_dfz |-> "dfz", check_rpki_invalids |-> "invalid_roa",
     check_rpki_totals |-> "total_roa", check_dns_roots |-> "dns_root",
     check_ripe_atlas_status |-> "atlas_connected"]

\* Every window is either what it was or what it was with this call's
\* value put in front (less its oldest element when it was full).
OwnUpdate ==
    \A i \in 1..Len(Histories) :
        \A k \in DOMAIN Histories'[i].window :
            \/ WindowOf(Histories'[i], k) = WindowOf(Histories[i], k)
            \/ AfterRecord(WindowOf(Histories[i], k),
                           LogOf(Histories'[i], k)[1],
                           WindowOf(Histories'[i], k))

\* C13: a detector changes no history but its own category's, and
\* check_dns_roots and check_ripe_atlas_status change none; the reasons of
\* the other categories stay as they were; the detector's own history is
\* its previous value updated with this call's input, and its reasons are
\* those of its own updated history.
C13_OwnHistoryOnly ==
    [][/\ pc' # "check_bgp_origins" => UNCHANGED num_origins_history
       /\ pc' # "check_bgp_prefixes" => UNCHANGED num_prefixes_history
       /\ pc' # "check_dfz" => UNCHANGED num_dfz_routes_history
       /\ pc' # "check_rpki_invalids" => UNCHANGED rpki_invalid_roa_history
       /\ pc' # "check_rpki_totals" => UNCHANGED rpki_total_roa_history
       /\ \A c \in Categories \ {DetectorCategory[pc']} :
             fucked_reasons'[c] = fucked_reasons[c]
       /\ OwnUpdate
       /\ pc' = "check_bgp_origins"
             => fucked_reasons'["origins"] = origins_reasons(num_origins_history')
       /\ pc' = "check_bgp_prefixes"
             => fucked_reasons'["prefixes"] \in prefixes_reasons(num_prefixes_history')
       /\ pc' = "check_rpki_invalids"
             => fucked_reasons'["invalid_roa"]
                   = invalids_reasons(rpki_invalid_roa_history')
       /\ pc' = "check_rpki_totals"
             => fucked_reasons'["total_roa"] = totals_reasons(rpki_total_roa_history')
       /\ (pc' = "check_dfz" /\ error' = "none")
             => fucked_reasons'["dfz"] = dfz_reasons(v6_pc', v4_pc')]_vars

\* check_rpki_totals was called on histories of two cycles: the total-ROA
\* window of "ripe" has grown while the four other histories are as before.
C13_Witness ==
    /\ calls = 1
    /\ pc = "check_rpki_totals"
    /\ "ripe" \in DOMAIN rpki_total_roa_history
    /\ rpki_total_roa_history["ripe"] = <<10, 10, 10>>
    /\ rpki_invalid_roa_history = HistoriesAfter(2).invalid_roa
    /\ num_origins_history = HistoriesAfter(2).origins
    /\ num_prefixes_history = HistoriesAfter(2).prefixes
    /\ num_dfz_routes_history = HistoriesAfter(2).dfz

-----------------------------------------------------------------------------
(* Properties of the aggregation inside the loop of main() (Spec).         *)

\* The categories whose detector has run in the current cycle, by the
\* position of main() in the loop body.
Emitted ==
    IF pc \in {"fetch_bgp", "origins"} THEN {}
    ELSE IF pc = "prefixes" THEN {"origins"}
    ELSE IF pc = "dfz" THEN {"origins", "prefixes"}
    ELSE IF pc \in {"store_bgp", "fetch_rpki", "invalids"}
         THEN {"origins", "prefixes", "dfz"}
    ELSE IF pc = "totals" THEN {"origins", "prefixes", "dfz", "invalid_roa"}
    ELSE IF pc \in {"fetch_dns", "dns"}
         THEN {"origins", "prefixes", "dfz", "invalid_roa", "total_roa"}
    ELSE IF pc \in {"fetch_atlas", "atlas"} THEN Categories \ {"atlas_connected"}
    ELSE Categories

NumReasons(c) == Cardinality(fucked_reasons[c])

\* C14: the weighted score of a cycle is the sum over the seven categories
\* of weight times the number of reasons of the category (in tenths: 1, 2,
\* 100, 10, 10, 50, 10), the unweighted score is the number of reasons, and
\* both are computed from this cycle's reasons only: the reason lists are
\* emptied at the start of every cycle, so a category holds no reason
\* before its detector has run in the cycle.
C14_ScoreOfThisCycle ==
    /\ pc \in {"write", "sleep"} =>
          /\ weighted_reasons.tenths =
                1 * NumReasons("origins") + 2 * NumReasons("prefixes")
                + 100 * NumReasons("dns_root") + 10 * NumReasons("atlas_connected")
                + 10 * NumReasons("invalid_roa") + 50 * NumReasons("total_roa")
                + 10 * NumReasons("dfz")
          /\ unweighted_reasons =
                NumReasons("origins") + NumReasons("prefixes")
                + NumReasons("dns_root") + NumReasons("atlas_connected")
                + NumReasons("invalid_roa") + NumReasons("total_roa")
                + NumReasons("dfz")
          /\ status = ladder(weighted_reasons)
    /\ pc \notin {"reset", "crashed"} =>
          \A c \in Categories \ Emitted : fucked_reasons[c] = {}

\* The second cycle has started after a first cycle that scored 21 with
\* three reasons (two dns_root, one atlas_connected): the lists are empty.
C14_Witness ==
    /\ cycle = 2
    /\ pc = "fetch_bgp"
    /\ fucked_reasons = NoReasons
    /\ weighted_reasons = [tenths |-> 210, ulp |-> 0]
    /\ unweighted_reasons = 3
    /\ status = "The Internet is quite fucked"

-----------------------------------------------------------------------------
(* Properties of check_dfz inside the loop of main() (Spec).               *)

\* The text s contains the text pat, at any position.
ContainsText(s, pat) ==
    \E i \in 1..(Len(s) - Len(pat) + 1) : SubSeq(s, i, i + Len(pat) - 1) = pat

\* C15: once check_dfz has returned, the v6 count it recorded is the number
\* of prefixes of the cycle's table whose text contains "::/" at any
\* position (position 0 included, as in "::/0"), the v4 count is the number
\* of the other prefixes, and the two counts sum to the number of prefixes.
C15_FamilyPartition ==
    pc = "store_bgp" =>
        LET prefixes == DOMAIN table_pfx_key(table)
            with_pattern == {p \in prefixes : ContainsText(p, <<":", ":", "/">>)}
        IN  /\ num_dfz_routes_history.v6[1] = Cardinality(with_pattern)
            /\ num_dfz_routes_history.v4[1] = Cardinality(prefixes \ with_pattern)
            /\ num_dfz_routes_history.v6[1] + num_dfz_routes_history.v4[1]
                  = Cardinality(prefixes)

-----------------------------------------------------------------------------
(* check_bgp_prefixes as a function of its two arguments: it is called on  *)
(* a history that earlier calls have left and on a table in which the      *)
(* first ASN advertises 0..MaxPrefixes prefixes.                           *)

MaxPrefixes == 30

\* A table in which the ASN advertises n prefixes
AdvertisedBy(asn, n) == {[ASN |-> asn, CIDR |-> <<"prefix", i>>] : i \in 1..n}

PrefixTables ==
    {AdvertisedBy(64500, c) \cup AdvertisedBy(64501, d) :
        c \in 0..MaxPrefixes, d \in {0, 1}}

\* Windows of the first ASN: a constant 20 prefixes for 1, 3, 23 or 24
\* cycles, and single samples from which a new count gives a drop of
\* exactly 85 percent (3 after 37), a rounding tie at 85.5 (29 after 371)
\* and a tie at 87.5 (1 after 15).
PrefixWindows ==
    {Repeat(20, n) : n \in {1, 3, max_history - 1, max_history}}
    \cup {<<37>>, <<371>>, <<15>>}

PrefixHistories ==
    {h0 @@ h1 :
        h0 \in {EmptyDict} \cup {64500 :> w : w \in PrefixWindows},
        h1 \in {EmptyDict, 64501 :> <<1, 20, 20>>}}

InitPrefixes ==
    /\ \E h \in PrefixHistories :
        /\ num_prefixes_history = h
        /\ recorded = [NoRecord EXCEPT !.prefixes = h]
    /\ pc = "call"
    /\ cycle = 1
    /\ results_bound = TRUE
    /\ error = "none"
    /\ table = {}
    /\ num_origins_history = EmptyDict
    /\ num_dfz_routes_history = [v6 |-> <<>>, v4 |-> <<>>]
    /\ rpki_invalid_roa_history = EmptyDict
    /\ rpki_total_roa_history = EmptyDict
    /\ invalid_roa = <<>>
    /\ total_roa = <<>>
    /\ v6_roots_failed = EmptyDict
    /\ v4_roots_failed = EmptyDict
    /\ probe_status = [connected |-> <<>>, disconnected |-> <<>>]
    /\ fucked_reasons = NoReasons
    /\ v6_pc = -1
    /\ v4_pc = -1
    /\ weighted_reasons = [tenths |-> 0, ulp |-> 0]
    /\ unweighted_reasons = 0
    /\ status = "unset"
    /\ degenerate = FALSE
    /\ calls = 0
    /\ duration = 0
    /\ period = 0

CallCheckBgpPrefixes ==
    /\ pc = "call"
    /\ calls < MaxCalls
    /\ \E rows \in PrefixTables :
        /\ table' = rows
        /\ LET h == record_counts(table_asn_key(rows), num_prefixes_history)
           IN  /\ num_prefixes_history' = h
               /\ \E reasons \in prefixes_reasons(h) :
                    fucked_reasons' = [NoReasons EXCEPT !["prefixes"] = reasons]
        /\ recorded' = [recorded EXCEPT
                          !.prefixes = log_counts(table_asn_key(rows), @)]
    /\ calls' = calls + 1
    /\ UNCHANGED <<pc, cycle, results_bound, error, num_origins_history,
                      num_dfz_routes_history, rpki_invalid_roa_history,
                      rpki_total_roa_history, invalid_roa, total_roa,
                      v6_roots_failed, v4_roots_failed, probe_status, v6_pc,
                      v4_pc, weighted_reasons, unweighted_reasons, status,
                      degenerate, duration, period>>

NextPrefixes == CallCheckBgpPrefixes

PrefixesSpec == InitPrefixes /\ [][NextPrefixes]_vars

\* The integers nearest to latest / avg * 100 (two of them on a tie), avg
\* being the mean of the window.
NearestPercent(window) ==
    LET below == (100 * window[1] * Len(window)) \div SumSeq(window)
    IN  {r \in {below, below + 1} :
            /\ 2 * (r * SumSeq(window) - 100 * window[1] * Len(window))
                  <= SumSeq(window)
            /\ 2 * (100 * window[1] * Len(window) - r * SumSeq(window))
                  <= SumSeq(window)}

DropReason(asn) == [key |-> asn, kind |-> "drop"] \in fucked_reasons["prefixes"]

\* C16: after a call of check_bgp_prefixes the window of every ASN of the
\* table starts with this call's count; for every tracked ASN, with
\* percent_drop = 100 - round(latest / avg * 100) over that window, a
\* reason is emitted exactly when percent_drop > bgp_prefix_threshold; a
\* drop of exactly 85 percent emits nothing; there is at most one reason
\* per tracked ASN.
C16_PrefixDrop ==
    calls >= 1 =>
        /\ \A asn \in DOMAIN table_asn_key(table) :
              num_prefixes_history[asn][1] = table_asn_key(table)[asn]
        /\ \A asn \in DOMAIN num_prefixes_history :
              LET prefixes == num_prefixes_history[asn]
              IN  /\ NearestPercent(prefixes) # {}
                  /\ DropReason(asn) =>
                        \E r \in NearestPercent(prefixes) :
                            100 - r > bgp_prefix_threshold
                  /\ ~DropReason(asn) =>
                        \E r \in NearestPercent(prefixes) :
                            100 - r <= bgp_prefix_threshold
                  /\ 100 * prefixes[1] * Len(prefixes)
                        = (100 - bgp_prefix_threshold) * SumSeq(prefixes)
                        => ~DropReason(asn)
        /\ \A r \in fucked_reasons["prefixes"] :
              r.kind = "drop" /\ r.key \in DOMAIN num_prefixes_history
        /\ Cardinality(fucked_reasons["prefixes"])
              <= Cardinality(DOMAIN num_prefixes_history)

\* 3 prefixes after 37 is a drop of exactly 85 percent: no reason; the
\* second ASN, down to 1 prefix from 20, has one.
C16_Witness ==
    /\ calls = 1
    /\ num_prefixes_history = (64500 :> <<3, 37>>) @@ (64501 :> <<1, 1, 20, 20>>)
    /\ fucked_reasons["prefixes"] = {[key |-> 64501, kind |-> "drop"]}

-----------------------------------------------------------------------------
(* Properties of check_ripe_atlas_status (DetectorsSpec).                  *)

AtlasCalled == pc = "check_ripe_atlas_status"

\* C17: with rate = disconnected / (connected + disconnected) * 100,
\* check_ripe_atlas_status raises no error; when both lists are empty (as
\* after a failed fetch) it emits nothing; otherwise it emits exactly one
\* reason when rate > atlas_probe_threshold and none when rate is at most
\* the threshold.
C17_AtlasVerdict ==
    AtlasCalled =>
        LET connected == Len(probe_status.connected)
            disconnected == Len(probe_status.disconnected)
            emitted == Cardinality(fucked_reasons["atlas_connected"])
        IN  /\ error = "none"
            /\ connected + disconnected = 0 => emitted = 0
            /\ connected + disconnected > 0 =>
                  /\ 100 * disconnected > atlas_probe_threshold * (connected + disconnected)
                        => emitted = 1
                  /\ 100 * disconnected <= atlas_probe_threshold * (connected + disconnected)
                        => emitted = 0

\* Two probes of ten are disconnected: one reason.
C17_Witness ==
    /\ AtlasCalled
    /\ Len(probe_status.connected) = 8
    /\ Len(probe_status.disconnected) = 2
    /\ Cardinality(fucked_reasons["atlas_connected"]) = 1

-----------------------------------------------------------------------------
(* Properties of the cadence of the loop of main() (Spec).                 *)

\* A cycle has just started after the sleep that followed the previous one.
NextCycleStarts == cycle >= 2 /\ pc = "reset"

\* C18: cycles are serial; after a cycle that took d seconds the loop
\* sleeps update_frequency - d when d < update_frequency and does not sleep
\* otherwise, so the next cycle starts max(update_frequency, d) seconds
\* after the previous one started, never before the previous one has
\* finished.
C18_Cadence ==
    NextCycleStarts =>
        LET slept == period - duration
        IN  /\ duration < update_frequency => slept = update_frequency - duration
            /\ duration >= update_frequency => slept = 0
            /\ period = Max(update_frequency, duration)
            /\ period >= duration

-----------------------------------------------------------------------------
(* Properties of the two origin-count conditions (OriginsSpec).            *)

WithdrawalReason(p) == [key |-> p, kind |-> "below"] \in fucked_reasons["origins"]

\* latest > avg and avg < 2
HijackCondition(window) ==
    /\ window[1] * Len(window) > SumSeq(window)
    /\ SumSeq(window) < 2 * Len(window)

\* latest < 2 and avg > 5
WithdrawalCondition(window) ==
    /\ window[1] < 2
    /\ SumSeq(window) > 5 * Len(window)

\* C19: the hijack condition and the withdrawal condition never both hold
\* for the window of a tracked prefix, so no prefix has both reasons and
\* the number of origins reasons is at most the number of tracked
\* prefixes.
C19_OneReasonPerPrefix ==
    /\ \A p \in DOMAIN num_origins_history :
          /\ ~(HijackCondition(num_origins_history[p])
               /\ WithdrawalCondition(num_origins_history[p]))
          /\ ~(HijackReason(p) /\ WithdrawalReason(p))
    /\ \A r \in fucked_reasons["origins"] : r.key \in DOMAIN num_origins_history
    /\ Cardinality(fucked_reasons["origins"])
          <= Cardinality(DOMAIN num_origins_history)

\* Two tracked prefixes, one with the hijack reason (3 origins after 1, 1,
\* 1) and one with the withdrawal reason (1 origin after 7, 7, 7).
C19_Witness ==
    /\ calls = 1
    /\ num_origins_history = (Pfx4 :> <<3, 1, 1, 1>>) @@ (Pfx6 :> <<1, 7, 7, 7>>)
    /\ fucked_reasons["origins"] =
          {[key |-> Pfx4, kind |-> "above"], [key |-> Pfx6, kind |-> "below"]}

-----------------------------------------------------------------------------
(* Properties of the samples of the two table histories (Spec).            *)

\* Every sample of every window of the history is at least 1.
SamplesPositive(history) ==
    \A k \in DOMAIN history :
        /\ Len(history[k]) >= 1
        /\ \A i \in 1..Len(history[k]) : history[k][i] >= 1

\* C20: every sample in the origin-count and prefix-count histories is at
\* least 1, so every window average is at least 1 and latest / avg in
\* check_bgp_prefixes never divides by zero.
C20_SamplesAtLeastOne ==
    /\ SamplesPositive(num_origins_history)
    /\ SamplesPositive(num_prefixes_history)
    /\ \A k \in DOMAIN num_origins_history :
          SumSeq(num_origins_history[k]) >= Len(num_origins_history[k])
    /\ \A k \in DOMAIN num_prefixes_history :
          /\ SumSeq(num_prefixes_history[k]) >= Len(num_prefixes_history[k])
          /\ SumSeq(num_prefixes_history[k]) # 0

\* The second cycle has recorded its counts: windows of two samples.
C20_Witness ==
    /\ cycle = 2
    /\ pc = "dfz"
    /\ num_origins_history = (Pfx4 :> <<1, 2>>) @@ (Pfx6 :> <<1>>)
    /\ num_prefixes_history = (64500 :> <<1, 2>>) @@ (64501 :> <<1>>)

-----------------------------------------------------------------------------
(* Properties of first observations inside the loop of main() (Spec).      *)

HistoryCategories == {"origins", "prefixes", "dfz", "invalid_roa", "total_roa"}

\* The four histories that are kept per key, each with its category
KeyedHistories ==
    <<[window |-> num_origins_history, category |-> "origins"],
      [window |-> num_prefixes_history, category |-> "prefixes"],
      [window |-> rpki_invalid_roa_history, category |-> "invalid_roa"],
      [window |-> rpki_total_roa_history, category |-> "total_roa"]>>

\* The reasons a category holds for a key
ReasonsFor(category, k) == {r \in fucked_reasons[category] : r.key = k}

\* C21: a key whose window is a singleton has no reason from the origins,
\* prefixes, invalid_roa or total_roa detector, whatever the value is; the
\* first cycle of a run holds no reason in any of the five history-based
\* categories, and when its table has at least one prefix counted in each
\* family check_dfz returns (the cycle does not stop inside the BGP block).
C21_FirstObservationQuiet ==
    /\ \A i \in 1..Len(KeyedHistories) :
          \A k \in DOMAIN KeyedHistories[i].window :
              Len(KeyedHistories[i].window[k]) = 1
                  => ReasonsFor(KeyedHistories[i].category, k) = {}
    /\ cycle = 1 =>
          /\ \A c \in HistoryCategories : fucked_reasons[c] = {}
          /\ \A i \in 1..Len(KeyedHistories) :
                \A k \in DOMAIN KeyedHistories[i].window :
                    Len(KeyedHistories[i].window[k]) = 1
          /\ (Crashed /\ table # {}) =>
                \/ num_dfz_routes_history.v6 = <<0>>
                \/ num_dfz_routes_history.v4 = <<0>>

\* The five history-based detectors have run in the first cycle on a table
\* with both families and two repositories, one with an invalid ROA: every
\* window is a singleton and there is no reason.
C21_Witness ==
    /\ cycle = 1
    /\ pc = "fetch_dns"
    /\ num_origins_history = (Pfx4 :> <<2>>) @@ (Pfx6 :> <<1>>)
    /\ num_prefixes_history = (64500 :> <<2>>) @@ (64501 :> <<1>>)
    /\ num_dfz_routes_history = [v6 |-> <<1>>, v4 |-> <<1>>]
    /\ rpki_invalid_roa_history = ("ripe" :> <<1>>) @@ ("arin" :> <<0>>)
    /\ rpki_total_roa_history = ("ripe" :> <<10>>) @@ ("arin" :> <<10>>)
    /\ \A c \in HistoryCategories : fucked_reasons[c] = {}

-----------------------------------------------------------------------------
(* The keyed detectors in the cycles after a key was last seen: they are   *)
(* called on the histories that cycle has left, and fucked_reasons holds   *)
(* for each category what the detector's latest call returned.             *)

MaxLaterCalls == 2

\* Histories in which the second key of each dictionary has just tripped
\* its test (Pfx4 the withdrawal test), histories in which nothing has, and
\* the latter with an ASN whose prefix count fell to exactly 14.5 percent.
LastSeenHistories ==
    {[origins |-> (Pfx4 :> <<1, 8, 8>>) @@ (Pfx6 :> <<2, 1, 1>>),
      prefixes |-> (64500 :> <<3, 3, 3>>) @@ (64501 :> <<1, 20, 20>>),
      dfz |-> [v6 |-> Repeat(1, 3), v4 |-> Repeat(2, 3)],
      invalid_roa |-> ("ripe" :> <<0, 0, 0>>) @@ ("arin" :> <<1, 0, 0>>),
      total_roa |-> ("ripe" :> <<10, 10, 10>>) @@ ("arin" :> <<50, 1000, 1000>>)],
     [HistoriesAfter(3) EXCEPT !.prefixes = (64500 :> <<3, 3, 3>>) @@ (64501 :> <<2, 2>>),
                               !.invalid_roa = ("ripe" :> <<0, 0, 0>>) @@ ("arin" :> <<1, 1>>)],
     [HistoriesAfter(3) EXCEPT !.prefixes = (64500 :> <<3, 3, 3>>) @@ (64501 :> <<29, 371>>)]}

InitLater ==
    /\ \E h \in LastSeenHistories :
        /\ num_origins_history = h.origins
        /\ num_prefixes_history = h.prefixes
        /\ num_dfz_routes_history = h.dfz
        /\ rpki_invalid_roa_history = h.invalid_roa
        /\ rpki_total_roa_history = h.total_roa
        /\ recorded = h
        /\ \E reasons \in prefixes_reasons(h.prefixes) :
              fucked_reasons =
                  [NoReasons EXCEPT !["origins"] = origins_reasons(h.origins),
                                    !["prefixes"] = reasons,
                                    !["invalid_roa"] = invalids_reasons(h.invalid_roa),
                                    !["total_roa"] = totals_reasons(h.total_roa)]
    /\ pc = "call"
    /\ cycle = 1
    /\ results_bound = TRUE
    /\ error = "none"
    /\ table = {}
    /\ invalid_roa = <<>>
    /\ total_roa = <<>>
    /\ v6_roots_failed = EmptyDict
    /\ v4_roots_failed = EmptyDict
    /\ probe_status = [connected |-> <<>>, disconnected |-> <<>>]
    /\ v6_pc = -1
    /\ v4_pc = -1
    /\ weighted_reasons = [tenths |-> 0, ulp |-> 0]
    /\ unweighted_reasons = 0
    /\ status = "unset"
    /\ degenerate = FALSE
    /\ calls = 0
    /\ duration = 0
    /\ period = 0

CanDetectLater == calls < MaxLaterCalls

\* main.py 429 in a later cycle
LaterOrigins ==
    /\ CanDetectLater
    /\ \E rows \in Tables :
        /\ table' = rows
        /\ LET r == check_bgp_origins(table_pfx_key(rows), num_origins_history)
           IN  /\ num_origins_history' = r.history
               /\ fucked_reasons' = [fucked_reasons EXCEPT !["origins"] = r.reasons]
        /\ recorded' = [recorded EXCEPT
                          !.origins = log_counts(table_pfx_key(rows), @)]
    /\ pc' = "check_bgp_origins"
    /\ calls' = calls + 1
    /\ UNCHANGED <<cycle, results_bound, error, num_prefixes_history,
                      num_dfz_routes_history, rpki_invalid_roa_history,
                      rpki_total_roa_history, invalid_roa, total_roa,
                      v6_roots_failed, v4_roots_failed, probe_status, v6_pc,
                      v4_pc, weighted_reasons, unweighted_reasons, status,
                      degenerate, duration, period>>

\* main.py 430 in a later cycle
LaterPrefixes ==
    /\ CanDetectLater
    /\ \E rows \in Tables :
        /\ table' = rows
        /\ LET h == record_counts(table_asn_key(rows), num_prefixes_history)
           IN  /\ num_prefixes_history' = h
               /\ \E reasons \in prefixes_reasons(h) :
                    fucked_reasons' = [fucked_reasons EXCEPT !["prefixes"] = reasons]
        /\ recorded' = [recorded EXCEPT
                          !.prefixes = log_counts(table_asn_key(rows), @)]
    /\ pc' = "check_bgp_prefixes"
    /\ calls' = calls + 1
    /\ UNCHANGED <<cycle, results_bound, error, num_origins_history,
                      num_dfz_routes_history, rpki_invalid_roa_history,
                      rpki_total_roa_history, invalid_roa, total_roa,
                      v6_roots_failed, v4_roots_failed, probe_status, v6_pc,
                      v4_pc, weighted_reasons, unweighted_reasons, status,
                      degenerate, duration, period>>

\* main.py 439 in a later cycle
LaterRpkiInvalids ==
    /\ CanDetectLater
    /\ \E repositories \in RpkiStatuses :
        LET inv == fetch_invalid_roa(repositories)
            r == check_rpki_invalids(inv, rpki_invalid_roa_history)
        IN  /\ invalid_roa' = inv
            /\ rpki_invalid_roa_history' = r.history
            /\ fucked_reasons' = [fucked_reasons EXCEPT !["invalid_roa"] = r.reasons]
            /\ recorded' = [recorded EXCEPT !.invalid_roa = log_roa(inv, @)]
    /\ pc' = "check_rpki_invalids"
    /\ calls' = calls + 1
    /\ UNCHANGED <<cycle, results_bound, error, table, num_origins_history,
                      num_prefixes_history, num_dfz_routes_history,
                      rpki_total_roa_history, total_roa, v6_roots_failed,
                      v4_roots_failed, probe_status, v6_pc, v4_pc,
                      weighted_reasons, unweighted_reasons, status,
                      degenerate, duration, period>>

\* main.py 440 in a later cycle
LaterRpkiTotals ==
    /\ CanDetectLater
    /\ \E repositories \in RpkiStatuses :
        LET tot == fetch_total_roa(repositories)
            r == check_rpki_totals(tot, rpki_total_roa_history)
        IN  /\ total_roa' = tot
            /\ rpki_total_roa_history' = r.history
            /\ fucked_reasons' = [fucked_reasons EXCEPT !["total_roa"] = r.reasons]
            /\ recorded' = [recorded EXCEPT !.total_roa = log_roa(tot, @)]
    /\ pc' = "check_rpki_totals"
    /\ calls' = calls + 1
    /\ UNCHANGED <<cycle, results_bound, error, table, num_origins_history,
                      num_prefixes_history, num_dfz_routes_history,
                      rpki_invalid_roa_history, invalid_roa,
                      v6_roots_failed, v4_roots_failed, probe_status, v6_pc,
                      v4_pc, weighted_reasons, unweighted_reasons, status,
                      degenerate, duration, period>>

NextLater ==
    \/ LaterOrigins
    \/ LaterPrefixes
    \/ LaterRpkiInvalids
    \/ LaterRpkiTotals

LaterCyclesSpec == InitLater /\ [][NextLater]_vars

\* prefixes_percentage leaves the rounding of this ASN's window open on the
\* threshold (an exact tie at 14.5 percent); Python evaluates the same
\* expression on the same floats whenever the window is the same.
RoundingOpen(i, k) ==
    /\ KeyedHistories[i].category = "prefixes"
    /\ k \in prefixes_may(num_prefixes_history) \ prefixes_must(num_prefixes_history)

\* C22: when check_bgp_origins, check_bgp_prefixes, check_rpki_invalids or
\* check_rpki_totals is called and a tracked key is not in the call's input,
\* the key stays tracked with the window it had, and the reasons the call
\* returns for it are the reasons the detector's previous call returned for
\* it: a reason is emitted again, no reason stays no reason.
C22_AbsentKeyVerdictFrozen ==
    [][\A i \in 1..Len(KeyedHistories) :
          DetectorCategory[pc'] = KeyedHistories[i].category =>
              \A k \in DOMAIN Histories[i].window :
                  LogOf(Histories'[i], k) = LogOf(Histories[i], k) =>
                      /\ k \in DOMAIN Histories'[i].window
                      /\ Histories'[i].window[k] = Histories[i].window[k]
                      /\ ~RoundingOpen(i, k) =>
                            ReasonsFor(KeyedHistories[i].category, k)'
                                = ReasonsFor(KeyedHistories[i].category, k)]_vars

\* Two calls of check_bgp_prefixes with an empty table after AS64501 fell
\* from 20 prefixes to 1 and AS64500 stayed at 3: both windows are as they
\* were, AS64501 has its reason again, AS64500 has none.
C22_Witness ==
    /\ pc = "check_bgp_prefixes"
    /\ calls = 2
    /\ table = {}
    /\ recorded.prefixes = (64500 :> <<3, 3, 3>>) @@ (64501 :> <<1, 20, 20>>)
    /\ num_prefixes_history = recorded.prefixes
    /\ fucked_reasons["prefixes"] = {[key |-> 64501, kind |-> "drop"]}

====
